---- MODULE Spec2Model ----
(***************************************************************************)
(* State-machine model of the Game Center administration tools             *)
(* (src/tools/*.py): setup_game_center, upload_gc_images, add_gc_to_review *)
(* and submit_gc_for_review.  One behaviour is one run of one tool.  Every *)
(* HTTP request is one step; the server's answer (status, body shape) is   *)
(* chosen nondeterministically when the request is sent.                   *)
(*                                                                         *)
(* Observation variables (no counterpart in the tools, written only to     *)
(* state properties): log, tried, served, sent, listed, hardFail,    *)
(* tokens.  log, served and sent are scoped: log holds the requests of the *)
(* current loop iteration other than page requests, served the page        *)
(* requests of the current paginated fetch with their answers, sent the    *)
(* chunks of the current image; each is cleared when its scope ends.       *)
(***************************************************************************)
EXTENDS Integers, Sequences, FiniteSets, TLC

\* ------------------------------------------------------------ bounds
\* items of one listing on the server (spread over its pages)
MaxItems == 2
\* page requests of one paginated fetch; the server's page URLs are 1..MaxFetch
MaxFetch == 2
\* size in bytes of an image file; a reservation has at most that many operations
MaxSize == 2
\* the latest second, counted from the epoch, at which a token is generated
MaxClock == 3

\* ------------------------------------------------------------ constants
NUM_LEVELS == 60
\* generate_gc_images has a NUM_LEVELS of its own
GEN_NUM_LEVELS == 60

None == 0
Running == -1

\* HTTP statuses the server answers with
Statuses == {200, 201, 204, 500}

Is2xx(st) == st >= 200 /\ st <= 299

\* the tools that talk to the App Store Connect API
ApiScripts == {"setup", "upload", "add", "submit"}

Scripts == ApiScripts \cup {"generate"}

Flags == [dry : BOOLEAN, achOnly : BOOLEAN, lbOnly : BOOLEAN]
NoFlags == [dry |-> FALSE, achOnly |-> FALSE, lbOnly |-> FALSE]

\* ------------------------------------------------------------ configuration
\* vendor identifiers: level_<j>_score, level_<j>_complete, all_levels_complete
SCORE_LEADERBOARDS == [j \in 1..NUM_LEVELS |-> <<"level", j, "score">>]

ACHIEVEMENTS ==
    [j \in 1..(NUM_LEVELS + 1) |->
        IF j <= NUM_LEVELS THEN <<"level", j, "complete">>
        ELSE <<"all_levels_complete", 0, "">>]

Range(s) == {s[j] : j \in 1..Len(s)}

VARIABLES
    script,         \* the tool that runs
    flags,          \* its command line: --dry-run, --achievements-only, --leaderboards-only
    keyOk,          \* whether the private key file can be read
    now,            \* datetime.now(timezone.utc) when the token is generated
    token,          \* the claims of the token generated (NoToken before)
    written,        \* <<directory, file name>> of the images generate_gc_images saved
    gc_detail_id,   \* the detail id get_or_create_gc_detail returned (None before)
    pc,             \* position in the tool
    exit,           \* exit status, Running until the process ends
    hardFail,       \* the setup failure met: the unreadable key or the lookup that found
                    \* nothing ("none" if none did)
    tokens,         \* tokens generated so far
    log,            \* requests sent in the current loop iteration (or before the first loop)
    tried,          \* <<loop, index>> of the loop iterations begun
    listed,         \* vendor identifiers printed by a dry run
    resp,           \* status of the latest response (None before any)
    \* paginated fetch
    path, url, params, all_data, served, ret,
    \* fetched lists and the loop over them
    achievements, leaderboards, phase, i,
    \* upload_gc_images
    uploaded, skipped, failed, locs, del_ret, file_data, upload_ops, opi, sent, success,
    \* add_gc_to_review
    subs, sub_i, review_sub_id, releases, rel_i, deleted, added, errors, ver_id, ver_resp

ctlVars   == <<script, flags, keyOk, now>>
fetchVars == <<path, url, params, all_data, served, ret>>
listVars  == <<achievements, leaderboards>>
imgVars   == <<locs, del_ret, file_data, upload_ops, opi, sent, success>>
cntVars   == <<uploaded, skipped, failed>>
addVars   == <<subs, sub_i, review_sub_id, releases, rel_i, deleted, added, errors, ver_id, ver_resp>>

vars == <<script, flags, keyOk, now, token, written, gc_detail_id, pc, exit, hardFail, tokens, log, tried, listed, resp,
          path, url, params, all_data, served, ret,
          achievements, leaderboards, phase, i,
          uploaded, skipped, failed, locs, del_ret, file_data, upload_ops, opi, sent, success,
          subs, sub_i, review_sub_id, releases, rel_i, deleted, added, errors, ver_id, ver_resp>>

\* ------------------------------------------------------------ requests
\* api_headers: every App Store Connect request carries the bearer token
Req(m, r, id, par) ==
    [m |-> m, r |-> r, id |-> id, par |-> par, auth |-> TRUE, sub |-> None, ver |-> None,
     ok |-> FALSE, data |-> FALSE, res |-> ""]

\* a reviewSubmissionItems POST: the submission and the version it relates
ItemReq(r, id, sub, ver) ==
    [m |-> "POST", r |-> r, id |-> id, par |-> FALSE, auth |-> TRUE, sub |-> sub, ver |-> ver,
     ok |-> FALSE, data |-> FALSE, res |-> ""]

\* a request to an upload destination that is sent with api_headers(token)
ChunkReqWithBearer(m, id) ==
    [m |-> m, r |-> "uploadUrl", id |-> id, par |-> FALSE, auth |-> TRUE,
     sub |-> None, ver |-> None, ok |-> FALSE, data |-> FALSE, res |-> ""]

\* a request to an upload destination: only the operation's own headers
ChunkReq(m, id) ==
    [m |-> m, r |-> "uploadUrl", id |-> id, par |-> FALSE, auth |-> FALSE,
     sub |-> None, ver |-> None, ok |-> FALSE, data |-> FALSE, res |-> ""]

\* the wrappers' success tests
ApiGetOk(st) == st = 200

\* an api_post that takes every 2xx for a success
ApiPostOkAny2xx(st) == Is2xx(st)

ApiPostOk(st) == st \in {200, 201}
ApiPatchOk(st) == st = 200
ApiDeleteOk(st) == st \in {200, 204}

\* an upload that never looks at a chunk's status
UploadOkAlways(st) == TRUE

\* upload_image_data: "if resp.status_code not in (200, 201, 204): return False"
UploadOk(st) == st \in {200, 201, 204}

\* what the wrapper for method m returns on status st: the parsed payload, None,
\* True or False; add_gc_to_review's api_post hands back the response object on
\* a failure and its api_delete hands it back always
WrapperResult(m, st) ==
    CASE m = "GET" -> IF ApiGetOk(st) THEN "payload" ELSE "None"
      [] m = "POST" -> IF ApiPostOk(st) THEN "payload"
                       ELSE IF script = "add" THEN "response" ELSE "None"
      [] m = "PATCH" -> IF ApiPatchOk(st) THEN "payload" ELSE "None"
      [] m = "DELETE" -> IF script = "add" THEN "response"
                         ELSE IF ApiDeleteOk(st) THEN "True" ELSE "False"
      [] OTHER -> ""

\* the request as logged: whether its answer was a 2xx and carried data, and
\* what the wrapper that sent it returned
Answered(req, st, data) ==
    [req EXCEPT !.ok = Is2xx(st), !.data = data,
                !.res = IF req.auth THEN WrapperResult(req.m, st) ELSE ""]

SendData(req, st, data) ==
    /\ log' = Append(log, Answered(req, st, data))
    /\ resp' = st

Send(req, st) == SendData(req, st, FALSE)

\* the first request of a loop iteration
SendFirst(req, st, data) ==
    /\ log' = <<Answered(req, st, data)>>
    /\ resp' = st

\* ------------------------------------------------------------ initial state
\* an instant: whole seconds since the epoch and microseconds
Instants == {[sec |-> t, us |-> u] : t \in 0..MaxClock, u \in {0, 999999}}

Epoch == [sec |-> 0, us |-> 0]

NoToken == [iat |-> 0 - 1, exp |-> 0 - 1]

\* the state a tool starts in, all but the clock
Start ==
    /\ script \in Scripts
    /\ flags \in (IF script \in {"setup", "upload"} THEN Flags ELSE {NoFlags})
    /\ keyOk \in (IF script \in ApiScripts THEN BOOLEAN ELSE {TRUE})
    /\ token = NoToken
    /\ written = {}
    /\ pc = "start"
    /\ exit = Running
    /\ hardFail = "none"
    /\ tokens = 0
    /\ log = <<>>
    /\ tried = {}
    /\ listed = {}
    /\ resp = None
    /\ path = "" /\ url = None /\ params = FALSE /\ all_data = <<>> /\ served = <<>> /\ ret = ""
    /\ achievements = <<>> /\ leaderboards = <<>> /\ phase = "" /\ i = 0
    /\ uploaded = 0 /\ skipped = 0 /\ failed = 0
    /\ locs = <<>> /\ del_ret = "" /\ file_data = <<>> /\ upload_ops = <<>>
    /\ opi = 0 /\ sent = <<>> /\ success = ""
    /\ subs = <<>> /\ sub_i = 0 /\ review_sub_id = None /\ releases = <<>> /\ rel_i = 0
    /\ deleted = 0 /\ added = 0 /\ errors = 0 /\ ver_id = None /\ ver_resp = <<>>
    /\ gc_detail_id = None

\* the clock plays no part but in the token: it stands at one instant here and
\* runs over Instants in TokenInit
Init == Start /\ now = Epoch

TokenInit == Start /\ now \in Instants

\* ------------------------------------------------------------ process end
Exit(code) == pc' = "done" /\ exit' = code

\* an uncaught exception: traceback, exit status 1
Crash == pc' = "crashed" /\ exit' = 1

\* ------------------------------------------------------------ main: entry
\* setup_game_center --dry-run: the items printed
SetupDryRunListing == Range(SCORE_LEADERBOARDS) \cup Range(ACHIEVEMENTS)

\* image files that may lie in the gc_images directories
ImageNames == {SCORE_LEADERBOARDS[1], ACHIEVEMENTS[1], ACHIEVEMENTS[NUM_LEVELS + 1]}

\* a dry run that the -only flags switch off
DryRunUnlessOnly == flags.dry /\ ~flags.achOnly /\ ~flags.lbOnly

\* "if args.dry_run:"
DryRunRequested == flags.dry

DryRun ==
    /\ pc = "start" /\ DryRunRequested
    /\ \/ script = "setup" /\ listed' = SetupDryRunListing
       \/ script = "upload" /\ \E files \in SUBSET ImageNames : listed' = files
    /\ Exit(0)
    /\ UNCHANGED <<ctlVars, gc_detail_id, token, written, hardFail, tokens, log, tried, resp, fetchVars,
                   listVars, phase, i, cntVars, imgVars, addVars>>

FirstStep ==
    CASE script = "setup" -> "s_detail"
      [] script = "upload" -> "u_main"
      [] script = "add" -> "a_detail"
      [] script = "submit" -> "b_detail"
      [] OTHER -> "done"

\* timedelta(minutes=20), in seconds
TokenLifetime == 20 * 60

\* a lifetime of twenty seconds: timedelta(seconds=20)
ExpiryInSeconds(t) == [t EXCEPT !.sec = @ + 20]

\* now + timedelta(minutes=20)
Expiry(t) == [t EXCEPT !.sec = @ + TokenLifetime]

\* jwt.encode turns a datetime claim into timegm(value.utctimetuple()): whole
\* seconds, the microseconds dropped
Timegm(t) == t.sec

GenerateToken ==
    /\ script \in ApiScripts
    /\ pc = "start" /\ ~DryRunRequested
    /\ IF keyOk
         THEN /\ tokens' = tokens + 1 /\ pc' = FirstStep /\ exit' = exit
              /\ token' = [iat |-> Timegm(now), exp |-> Timegm(Expiry(now))]
         ELSE tokens' = tokens /\ token' = token /\ Crash
    /\ hardFail' = IF keyOk THEN hardFail ELSE "key"
    /\ UNCHANGED <<ctlVars, gc_detail_id, written, log, tried, listed, resp, fetchVars,
                   listVars, phase, i, cntVars, imgVars, addVars>>

\* ------------------------------------------------------------ generate_gc_images
\* f"{vendor_id}.png"
PngName(stem) == Append(stem, "png")

\* main, with a loop that forgets the last level: range(1, NUM_LEVELS)
GeneratedShort ==
    {<<"achievements", PngName(<<"level", j, "complete">>)>> : j \in 1..(GEN_NUM_LEVELS - 1)}
    \cup {<<"achievements", PngName(<<"all_levels_complete", 0, "">>)>>}
    \cup {<<"leaderboards", PngName(<<"level", j, "score">>)>> : j \in 1..(GEN_NUM_LEVELS - 1)}

\* main: level_{i}_complete.png and all_levels_complete.png under ACH_DIR,
\* level_{i}_score.png under LB_DIR
Generated ==
    {<<"achievements", PngName(<<"level", j, "complete">>)>> : j \in 1..GEN_NUM_LEVELS}
    \cup {<<"achievements", PngName(<<"all_levels_complete", 0, "">>)>>}
    \cup {<<"leaderboards", PngName(<<"level", j, "score">>)>> : j \in 1..GEN_NUM_LEVELS}

\* main: nothing is written when the font is missing
GenerateImages ==
    /\ script = "generate" /\ pc = "start"
    /\ \E font \in BOOLEAN : written' = IF font THEN Generated ELSE {}
    /\ Exit(0)
    /\ UNCHANGED <<ctlVars, gc_detail_id, token, hardFail, tokens, log, tried, listed, resp, fetchVars,
                   listVars, phase, i, cntVars, imgVars, addVars>>

\* upload_gc_images: os.path.join(ACH_DIR, f"{vendor_id}.png"), likewise LB_DIR
ImagePath(dir, vendor_id) == <<dir, PngName(vendor_id)>>

\* ------------------------------------------------------------ paginated fetch
\* api_get_all_pages / get_all_pages: the call
FetchCall(p, withParams, back) ==
    /\ path' = p /\ url' = 1 /\ params' = withParams
    /\ all_data' = <<>> /\ served' = <<>> /\ ret' = back
    /\ pc' = "fetch"

\* items the server has handed out in the current fetch
Served == IF served = <<>> THEN 0 ELSE served[Len(served)].last

\* the ids the server gives the k items of its next page
PageData(k) == [j \in 1..k |-> Served + j]

\* the links the server may put on the page it serves now
Links == IF Len(served) + 1 < MaxFetch THEN 0..MaxFetch ELSE {None}

\* the link back the server may put on the last page the history can hold: the
\* URL of the page before it, when neither page holds an item
BackLinks(k) ==
    IF /\ Len(served) + 1 = MaxFetch /\ served # <<>> /\ k = 0
       /\ served[Len(served)].data = <<>> /\ served[Len(served)].url # url
      THEN {served[Len(served)].url}
      ELSE {}

\* "if resp.status_code != 200: break"
PageOk(st) == st = 200

\* parameters that go out with every request
NextParamsKept(p) == p

\* "params = None  # params are included in the next URL"
NextParams(p) == FALSE

\* a page that replaces what was gathered: all_data = result.get("data", [])
ExtendReplacing(acc, data) == data

\* all_data.extend(result.get("data", []))
Extend(acc, data) == acc \o data

\* a break that throws away what was gathered
PartialDropped(acc) == <<>>

\* after the break: "return all_data"
Partial(acc) == acc

\* one iteration of "while url:"
FetchPage ==
    /\ pc = "fetch" /\ url # None /\ Len(served) < MaxFetch
    /\ \E st \in Statuses :
         \E k \in (IF st = 200 THEN 0..(MaxItems - Served) ELSE {0}) :
           \E nx \in (IF st = 200 THEN Links \cup BackLinks(k) ELSE {None}) :
             LET data == PageData(k) IN
             /\ resp' = st
             /\ params' = NextParams(params)
             /\ served' = Append(served,
                   [url |-> url, par |-> params, st |-> st, data |-> data, next |-> nx,
                    last |-> Served + k])
             /\ IF ~PageOk(st)
                  THEN /\ pc' = "fetch_ret"
                       /\ all_data' = Partial(all_data)
                       /\ url' = url
                  ELSE /\ all_data' = Extend(all_data, data)
                       /\ url' = nx
                       /\ pc' = IF nx = None THEN "fetch_ret" ELSE "fetch"
    /\ UNCHANGED <<ctlVars, gc_detail_id, token, written, exit, hardFail, tokens, log, tried, listed, path, ret,
                   listVars, phase, i, cntVars, imgVars, addVars>>

\* one more iteration of "while url:" on a page served before: the server
\* answers as it did then
FetchRevisit ==
    /\ pc = "fetch" /\ url # None /\ Len(served) = MaxFetch
    /\ \E j \in 1..Len(served) :
         /\ j >= Len(served) - 1 /\ served[j].url = url /\ PageOk(served[j].st)
         /\ resp' = served[j].st
         /\ params' = NextParams(params)
         /\ all_data' = Extend(all_data, served[j].data)
         /\ url' = served[j].next
         /\ pc' = IF served[j].next = None THEN "fetch_ret" ELSE "fetch"
    /\ UNCHANGED <<ctlVars, gc_detail_id, token, written, exit, hardFail, tokens, log, tried, listed, path, served,
                   ret, listVars, phase, i, cntVars, imgVars, addVars>>

\* ------------------------------------------------------------ setup_game_center
SetupItems == IF phase = "lb" THEN SCORE_LEADERBOARDS ELSE ACHIEVEMENTS
SetupType == IF phase = "lb" THEN "gameCenterLeaderboards" ELSE "gameCenterAchievements"
SetupLocType ==
    IF phase = "lb" THEN "gameCenterLeaderboardLocalizations"
    ELSE "gameCenterAchievementLocalizations"

\* the id of the detail the app has, and the id the server gives one it creates
ExistingDetail == 1
NewDetail == 2

\* a lookup whose answer is never taken
DetailFoundNever(st, data) == FALSE

\* "if result and result.get('data')"
DetailFound(st, data) == ApiGetOk(st) /\ data

\* main after get_or_create_gc_detail returned
SetupEnter ==
    IF ~flags.achOnly THEN pc' = "s_loop" /\ phase' = "lb" /\ i' = 1 /\ exit' = exit
    ELSE IF ~flags.lbOnly THEN pc' = "s_loop" /\ phase' = "ach" /\ i' = 1 /\ exit' = exit
    ELSE Exit(0) /\ UNCHANGED <<phase, i>>

SetupGetDetail ==
    /\ script = "setup" /\ pc = "s_detail"
    /\ \E st \in Statuses : \E data \in (IF st = 200 THEN BOOLEAN ELSE {FALSE}) :
         /\ SendData(Req("GET", "gameCenterDetail", 0, FALSE), st, data)
         /\ IF DetailFound(st, data)
              THEN SetupEnter /\ gc_detail_id' = ExistingDetail
              ELSE pc' = "s_create_detail" /\ UNCHANGED <<exit, phase, i, gc_detail_id>>
    /\ UNCHANGED <<ctlVars, token, written, hardFail, tokens, tried, listed, fetchVars, listVars,
                   cntVars, imgVars, addVars>>

SetupCreateDetail ==
    /\ script = "setup" /\ pc = "s_create_detail"
    /\ \E st \in Statuses :
         /\ Send(Req("POST", "gameCenterDetails", 0, FALSE), st)
         /\ IF ApiPostOk(st)
              THEN SetupEnter /\ hardFail' = hardFail /\ gc_detail_id' = NewDetail
              ELSE Exit(1) /\ hardFail' = "detail" /\ UNCHANGED <<phase, i, gc_detail_id>>
    /\ UNCHANGED <<ctlVars, token, written, tokens, tried, listed, fetchVars, listVars, cntVars, imgVars, addVars>>

\* create_all_leaderboards / create_all_achievements: create_leaderboard(lb)
SetupCreateItem ==
    /\ script = "setup" /\ pc = "s_loop" /\ i <= Len(SetupItems)
    /\ \E st \in Statuses :
         /\ SendFirst(Req("POST", SetupType, i, FALSE), st, FALSE)
         /\ tried' = tried \cup {<<"create", phase, i>>}
         /\ IF ApiPostOk(st)
              THEN pc' = "s_loc" /\ i' = i
              ELSE pc' = "s_loop" /\ i' = i + 1
    /\ UNCHANGED <<ctlVars, gc_detail_id, token, written, exit, hardFail, tokens, listed, fetchVars, listVars, phase,
                   cntVars, imgVars, addVars>>

SetupCreateLocalization ==
    /\ script = "setup" /\ pc = "s_loc"
    /\ \E st \in Statuses : Send(Req("POST", SetupLocType, i, FALSE), st)
    /\ pc' = "s_loop" /\ i' = i + 1
    /\ UNCHANGED <<ctlVars, gc_detail_id, token, written, exit, hardFail, tokens, tried, listed, fetchVars, listVars,
                   phase, cntVars, imgVars, addVars>>

SetupLoopDone ==
    /\ script = "setup" /\ pc = "s_loop" /\ i > Len(SetupItems)
    /\ IF phase = "lb" /\ ~flags.lbOnly
         THEN pc' = "s_loop" /\ phase' = "ach" /\ i' = 1 /\ exit' = exit
         ELSE Exit(0) /\ UNCHANGED <<phase, i>>
    /\ UNCHANGED <<ctlVars, gc_detail_id, token, written, hardFail, tokens, log, tried, listed, resp, fetchVars,
                   listVars, cntVars, imgVars, addVars>>

\* ------------------------------------------------------------ upload_gc_images
\* both kinds whatever the flags say
DoBothAlways == TRUE

DoBoth == ~flags.achOnly /\ ~flags.lbOnly

UploadItems == IF phase = "ach" THEN achievements ELSE leaderboards
UploadItemsPath == IF phase = "ach" THEN "gameCenterAchievements" ELSE "gameCenterLeaderboards"
UploadLocPath ==
    IF phase = "ach" THEN "gameCenterAchievements/localizations"
    ELSE "gameCenterLeaderboards/localizations"
ImageType == IF phase = "ach" THEN "gameCenterAchievementImages" ELSE "gameCenterLeaderboardImages"
\* resource_type.rstrip("s")
ImageRel == IF phase = "ach" THEN "gameCenterAchievementImage" ELSE "gameCenterLeaderboardImage"

BoolStr(b) == IF b THEN "True" ELSE "False"

ClearFetch ==
    /\ path' = "" /\ url' = None /\ params' = FALSE
    /\ all_data' = <<>> /\ served' = <<>> /\ ret' = ""

ClearImage ==
    /\ locs' = <<>> /\ del_ret' = "" /\ file_data' = <<>> /\ upload_ops' = <<>>
    /\ opi' = 0 /\ sent' = <<>> /\ success' = ""

\* main, second call: upload_leaderboard_images
UploadEnterLb ==
    IF DoBoth \/ flags.lbOnly
      THEN pc' = "u_detail" /\ phase' = "lb" /\ exit' = exit
      ELSE Exit(0) /\ phase' = phase

\* upload_*_images returns to main; its locals die
UploadReturn ==
    /\ IF phase = "ach" THEN UploadEnterLb ELSE Exit(0) /\ phase' = phase
    /\ achievements' = <<>> /\ leaderboards' = <<>> /\ i' = 0
    /\ uploaded' = 0 /\ skipped' = 0 /\ failed' = 0
    /\ tried' = {}

UploadMain ==
    /\ script = "upload" /\ pc = "u_main"
    /\ IF DoBoth \/ flags.achOnly
         THEN pc' = "u_detail" /\ phase' = "ach" /\ exit' = exit
         ELSE UploadEnterLb
    /\ UNCHANGED <<ctlVars, gc_detail_id, token, written, hardFail, tokens, log, tried, listed, resp, fetchVars,
                   listVars, i, cntVars, imgVars, addVars>>

UploadGetDetail ==
    /\ script = "upload" /\ pc = "u_detail"
    /\ \E st \in Statuses : \E data \in (IF st = 200 THEN BOOLEAN ELSE {FALSE}) :
         /\ SendFirst(Req("GET", "gameCenterDetail", 0, FALSE), st, data)
         /\ IF ApiGetOk(st) /\ data
              THEN /\ FetchCall(UploadItemsPath, TRUE, "u_items")
                   /\ UNCHANGED <<exit, hardFail, tried, phase, listVars, i, cntVars>>
              ELSE /\ hardFail' = "detail"
                   /\ UploadReturn
                   /\ UNCHANGED fetchVars
    /\ UNCHANGED <<ctlVars, gc_detail_id, token, written, tokens, listed, imgVars, addVars>>

UploadItemsFetched ==
    /\ script = "upload" /\ pc = "fetch_ret" /\ ret = "u_items"
    /\ IF phase = "ach"
         THEN achievements' = all_data /\ leaderboards' = leaderboards
         ELSE leaderboards' = all_data /\ achievements' = achievements
    /\ uploaded' = 0 /\ skipped' = 0 /\ failed' = 0
    /\ i' = 1 /\ pc' = "u_item"
    /\ ClearFetch
    /\ UNCHANGED <<ctlVars, gc_detail_id, token, written, exit, hardFail, tokens, log, tried, listed, resp,
                   phase, imgVars, addVars>>

\* loop head: the image file of the item
UploadItem ==
    /\ script = "upload" /\ pc = "u_item" /\ i <= Len(UploadItems)
    /\ tried' = tried \cup {<<"upload", phase, i>>}
    /\ log' = <<>> /\ resp' = None /\ ClearImage
    /\ \E exists \in BOOLEAN :
         IF ~exists
           THEN /\ skipped' = skipped + 1 /\ i' = i + 1 /\ pc' = "u_item"
                /\ UNCHANGED <<fetchVars, uploaded, failed>>
           ELSE /\ FetchCall(UploadLocPath, FALSE, "u_locs")
                /\ UNCHANGED <<i, cntVars>>
    /\ UNCHANGED <<ctlVars, gc_detail_id, token, written, exit, hardFail, tokens, listed, listVars, phase, addVars>>

\* an item without localizations that is passed over without being counted
UploadLocsUncounted ==
    /\ script = "upload" /\ pc = "fetch_ret" /\ ret = "u_locs"
    /\ locs' = all_data
    /\ ClearFetch
    /\ IF all_data = <<>>
         THEN skipped' = skipped /\ i' = i + 1 /\ pc' = "u_item"
         ELSE skipped' = skipped /\ i' = i /\ pc' = "u_del_get"
    /\ UNCHANGED <<ctlVars, gc_detail_id, token, written, exit, hardFail, tokens, log, tried, listed, resp,
                   listVars, phase, uploaded, failed,
                   del_ret, file_data, upload_ops, opi, sent, success, addVars>>

UploadLocs ==
    /\ script = "upload" /\ pc = "fetch_ret" /\ ret = "u_locs"
    /\ locs' = all_data
    /\ ClearFetch
    /\ IF all_data = <<>>
         THEN skipped' = skipped + 1 /\ i' = i + 1 /\ pc' = "u_item"
         ELSE skipped' = skipped /\ i' = i /\ pc' = "u_del_get"
    /\ UNCHANGED <<ctlVars, gc_detail_id, token, written, exit, hardFail, tokens, log, tried, listed, resp,
                   listVars, phase, uploaded, failed,
                   del_ret, file_data, upload_ops, opi, sent, success, addVars>>

\* a lookup that reports an absent image as a failure
NoExistingImageFails == "False"

\* "return True  # No existing image, that's fine"
NoExistingImage == "True"

\* delete_existing_image: the lookup
DeleteExistingGet ==
    /\ script = "upload" /\ pc = "u_del_get"
    /\ \E st \in Statuses : \E data \in (IF st = 200 THEN BOOLEAN ELSE {FALSE}) :
         /\ SendData(Req("GET", ImageRel, locs[1], FALSE), st, data)
         /\ IF ApiGetOk(st) /\ data
              THEN pc' = "u_del_delete" /\ del_ret' = del_ret
              ELSE pc' = "u_reserve" /\ del_ret' = NoExistingImage
    /\ UNCHANGED <<ctlVars, gc_detail_id, token, written, exit, hardFail, tokens, tried, listed, fetchVars, listVars,
                   phase, i, cntVars, locs, file_data, upload_ops, opi, sent, success, addVars>>

\* a removal whose failure ends the image: create_and_upload_image returns False
DeleteExistingDeleteAborting ==
    /\ script = "upload" /\ pc = "u_del_delete"
    /\ \E st \in Statuses :
         /\ Send(Req("DELETE", ImageType, locs[1], FALSE), st)
         /\ del_ret' = BoolStr(ApiDeleteOk(st))
         /\ IF ApiDeleteOk(st)
              THEN pc' = "u_reserve" /\ success' = success
              ELSE pc' = "u_count" /\ success' = "False"
    /\ UNCHANGED <<ctlVars, gc_detail_id, token, written, exit, hardFail, tokens, tried, listed, fetchVars, listVars,
                   phase, i, cntVars, locs, file_data, upload_ops, opi, sent, addVars>>

DeleteExistingDelete ==
    /\ script = "upload" /\ pc = "u_del_delete"
    /\ \E st \in Statuses :
         /\ Send(Req("DELETE", ImageType, locs[1], FALSE), st)
         /\ del_ret' = BoolStr(ApiDeleteOk(st))
    /\ pc' = "u_reserve"
    /\ UNCHANGED <<ctlVars, gc_detail_id, token, written, exit, hardFail, tokens, tried, listed, fetchVars, listVars,
                   phase, i, cntVars, locs, file_data, upload_ops, opi, sent, success, addVars>>

\* ---- the reservation's upload operations
NoOffset == -1
\* the image files: n bytes, each byte its position's own value
Files == {[j \in 1..n |-> j] : n \in 1..MaxSize}

Op(off, len) == [method |-> "PUT", offset |-> off, length |-> len]

RECURSIVE Tile(_, _, _)
\* the ways to cut bytes [off, off + size) into n consecutive non-empty ranges
Tile(off, size, n) ==
    IF n = 1 THEN {<<Op(off, size)>>}
    ELSE UNION {{<<Op(off, c)>> \o t : t \in Tile(off + c, size - c, n - 1)} :
                   c \in 1..(size - (n - 1))}

Reverse(s) == [j \in 1..Len(s) |-> s[Len(s) + 1 - j]]

\* an operation at offset 0 may leave the offset out
OmitZero(s) ==
    [j \in 1..Len(s) |-> IF s[j].offset = 0 THEN [s[j] EXCEPT !.offset = NoOffset] ELSE s[j]]

Min(a, b) == IF a < b THEN a ELSE b

\* the uploadOperations the server may answer for a file of `size` bytes: none,
\* a split of the file (in either order), or one range reaching past the end
Reservations(size) ==
    {<<>>, <<Op(0, size + 1)>>}
    \cup UNION {UNION {{t, Reverse(t), OmitZero(t)} : t \in Tile(0, size, n)} :
                   n \in 1..size}

\* file_data[a:b] for 0 <= a
Slice(s, a, b) == SubSeq(s, a + 1, Min(b, Len(s)))

\* an upload that reads every chunk from the start of the file
OpOffsetIgnored(op) == 0

\* op.get("offset", 0)
OpOffset(op) == IF op.offset = NoOffset THEN 0 ELSE op.offset

\* create_and_upload_image, step 1: the reservation
CreateImage ==
    /\ script = "upload" /\ pc = "u_reserve"
    /\ \E file \in Files : \E st \in Statuses :
         \E ops \in (IF ApiPostOk(st) THEN Reservations(Len(file)) ELSE {<<>>}) :
           /\ file_data' = file
           /\ Send(Req("POST", ImageType, locs[1], FALSE), st)
           /\ IF ~ApiPostOk(st) \/ ops = <<>>
                THEN success' = "False" /\ pc' = "u_count" /\ UNCHANGED <<upload_ops, opi>>
                ELSE success' = success /\ pc' = "u_chunk" /\ upload_ops' = ops /\ opi' = 1
    /\ UNCHANGED <<ctlVars, gc_detail_id, token, written, exit, hardFail, tokens, tried, listed, fetchVars, listVars,
                   phase, i, cntVars, locs, del_ret, sent, addVars>>

\* an upload that goes on to the next operation after a failed one
UploadChunkContinuing ==
    /\ script = "upload" /\ pc = "u_chunk"
    /\ LET op == upload_ops[opi] IN
       LET offset == OpOffset(op) IN
       LET chunk == Slice(file_data, offset, offset + op.length) IN
       \E st \in Statuses :
         /\ Send(ChunkReq(op.method, opi), st)
         /\ sent' = Append(sent, [op |-> opi, data |-> chunk, ok |-> Is2xx(st)])
         /\ IF opi = Len(upload_ops)
              THEN /\ opi' = opi
                   /\ IF UploadOk(st) /\ success # "False"
                        THEN pc' = "u_commit" /\ success' = success
                        ELSE pc' = "u_count" /\ success' = "False"
              ELSE /\ pc' = "u_chunk" /\ opi' = opi + 1
                   /\ success' = IF UploadOk(st) THEN success ELSE "False"
    /\ UNCHANGED <<ctlVars, gc_detail_id, token, written, exit, hardFail, tokens, tried, listed, fetchVars,
                   listVars, phase, i, cntVars, locs, del_ret, file_data, upload_ops, addVars>>

\* an upload that sends a failed chunk again
UploadChunkRetrying ==
    /\ script = "upload" /\ pc = "u_chunk"
    /\ LET op == upload_ops[opi] IN
       LET offset == OpOffset(op) IN
       LET chunk == Slice(file_data, offset, offset + op.length) IN
       \E st \in Statuses :
         /\ Send(ChunkReq(op.method, opi), st)
         /\ sent' = Append(sent, [op |-> opi, data |-> chunk, ok |-> Is2xx(st)])
         /\ success' = success
         /\ IF ~UploadOk(st)
              THEN pc' = "u_chunk" /\ opi' = opi
              ELSE IF opi = Len(upload_ops)
                     THEN pc' = "u_commit" /\ opi' = opi
                     ELSE pc' = "u_chunk" /\ opi' = opi + 1
    /\ UNCHANGED <<ctlVars, gc_detail_id, token, written, exit, hardFail, tokens, tried, listed, fetchVars,
                   listVars, phase, i, cntVars, locs, del_ret, file_data, upload_ops, addVars>>

\* upload_image_data: one upload operation
UploadChunk ==
    /\ script = "upload" /\ pc = "u_chunk"
    /\ LET op == upload_ops[opi] IN
       LET offset == OpOffset(op) IN
       LET chunk == Slice(file_data, offset, offset + op.length) IN
       \E st \in Statuses :
         /\ Send(ChunkReq(op.method, opi), st)
         /\ sent' = Append(sent, [op |-> opi, data |-> chunk, ok |-> Is2xx(st)])
         /\ IF ~UploadOk(st)
              THEN success' = "False" /\ pc' = "u_count" /\ opi' = opi
              ELSE /\ success' = success
                   /\ IF opi = Len(upload_ops)
                        THEN pc' = "u_commit" /\ opi' = opi
                        ELSE pc' = "u_chunk" /\ opi' = opi + 1
    /\ UNCHANGED <<ctlVars, gc_detail_id, token, written, exit, hardFail, tokens, tried, listed, fetchVars, listVars,
                   phase, i, cntVars, locs, del_ret, file_data, upload_ops, addVars>>

\* create_and_upload_image, step 3: the commit
CommitImage ==
    /\ script = "upload" /\ pc = "u_commit"
    /\ \E st \in Statuses :
         /\ Send(Req("PATCH", ImageType, locs[1], FALSE), st)
         /\ success' = BoolStr(ApiPatchOk(st))
    /\ pc' = "u_count"
    /\ UNCHANGED <<ctlVars, gc_detail_id, token, written, exit, hardFail, tokens, tried, listed, fetchVars, listVars,
                   phase, i, cntVars, locs, del_ret, file_data, upload_ops, opi, sent, addVars>>

\* a loop that gives up at the first image that fails
UploadCountAborting ==
    /\ script = "upload" /\ pc = "u_count"
    /\ IF success = "True"
         THEN uploaded' = uploaded + 1 /\ failed' = failed /\ i' = i + 1
         ELSE failed' = failed + 1 /\ uploaded' = uploaded /\ i' = Len(UploadItems) + 1
    /\ pc' = "u_item"
    /\ UNCHANGED <<ctlVars, gc_detail_id, token, written, exit, hardFail, tokens, log, tried, listed, resp,
                   fetchVars, listVars, phase, skipped, imgVars, addVars>>

\* the loop body after create_and_upload_image returned
UploadCount ==
    /\ script = "upload" /\ pc = "u_count"
    /\ IF success = "True"
         THEN uploaded' = uploaded + 1 /\ failed' = failed
         ELSE failed' = failed + 1 /\ uploaded' = uploaded
    /\ i' = i + 1 /\ pc' = "u_item"
    /\ UNCHANGED <<ctlVars, gc_detail_id, token, written, exit, hardFail, tokens, log, tried, listed, resp,
                   fetchVars, listVars, phase, skipped, imgVars, addVars>>

\* the loop is exhausted: the summary line
UploadLoopDone ==
    /\ script = "upload" /\ pc = "u_item" /\ i > Len(UploadItems)
    /\ pc' = "u_summary"
    /\ log' = <<>> /\ resp' = None /\ ClearImage
    /\ UNCHANGED <<ctlVars, gc_detail_id, token, written, exit, hardFail, tokens, tried, listed, fetchVars,
                   listVars, phase, i, cntVars, addVars>>

UploadSummary ==
    /\ script = "upload" /\ pc = "u_summary"
    /\ UploadReturn
    /\ UNCHANGED <<ctlVars, gc_detail_id, token, written, hardFail, tokens, log, listed, resp, fetchVars, imgVars, addVars>>

\* ------------------------------------------------------------ add_gc_to_review
Items == IF phase = "ach" THEN achievements ELSE leaderboards
ItemsPath == IF phase = "ach" THEN "gameCenterAchievements" ELSE "gameCenterLeaderboards"
ReleaseType ==
    IF phase = "ach" THEN "gameCenterAchievementReleases" ELSE "gameCenterLeaderboardReleases"
VersionType ==
    IF phase = "ach" THEN "gameCenterAchievementVersions" ELSE "gameCenterLeaderboardVersions"

AddGetDetail ==
    /\ script = "add" /\ pc = "a_detail"
    /\ \E st \in Statuses : \E data \in (IF st = 200 THEN BOOLEAN ELSE {FALSE}) :
         /\ SendData(Req("GET", "gameCenterDetail", 0, FALSE), st, data)
         /\ IF ApiGetOk(st) /\ data
              THEN pc' = "a_subs" /\ UNCHANGED <<exit, hardFail>>
              ELSE Exit(1) /\ hardFail' = "detail"
    /\ UNCHANGED <<ctlVars, gc_detail_id, token, written, tokens, tried, listed, fetchVars, listVars, phase, i,
                   cntVars, imgVars, addVars>>

\* step 2: the review submissions of the app
AddGetSubmissions ==
    /\ script = "add" /\ pc = "a_subs"
    /\ \E st \in Statuses : \E n \in (IF st = 200 THEN 0..MaxItems ELSE {0}) :
         /\ SendData(Req("GET", "reviewSubmissions", 0, TRUE), st, n > 0)
         /\ IF ApiGetOk(st) /\ n > 0
              THEN /\ subs' = [j \in 1..n |-> j] /\ sub_i' = 1
                   /\ pc' = "a_sub_items" /\ UNCHANGED <<exit, hardFail>>
              ELSE /\ Exit(1) /\ hardFail' = "submission"
                   /\ UNCHANGED <<subs, sub_i>>
    /\ UNCHANGED <<ctlVars, gc_detail_id, token, written, tokens, tried, listed, fetchVars, listVars, phase, i,
                   cntVars, imgVars, review_sub_id, releases, rel_i, deleted, added, errors,
                   ver_id, ver_resp>>

\* a fallback to the last submission returned
FallbackLast(s) == s[Len(s)]

\* "review_sub_id = subs['data'][0]['id']"
Fallback(s) == s[1]

\* "for sub in subs['data']": the items of one submission; after the loop the
\* fallback to the first submission, then step 3's first fetch
AddGetSubmissionItems ==
    /\ script = "add" /\ pc = "a_sub_items"
    /\ \E st \in Statuses : \E data \in (IF st = 200 THEN BOOLEAN ELSE {FALSE}) :
         /\ SendData(Req("GET", "reviewSubmissions/items", subs[sub_i], FALSE), st, data)
         /\ IF ApiGetOk(st) /\ data
              THEN /\ review_sub_id' = subs[sub_i] /\ sub_i' = sub_i
                   /\ FetchCall("gameCenterAchievements", TRUE, "a_ach")
              ELSE IF sub_i < Len(subs)
                THEN /\ sub_i' = sub_i + 1 /\ pc' = "a_sub_items"
                     /\ UNCHANGED <<review_sub_id, fetchVars>>
                ELSE /\ review_sub_id' = Fallback(subs) /\ sub_i' = sub_i
                     /\ FetchCall("gameCenterAchievements", TRUE, "a_ach")
    /\ UNCHANGED <<ctlVars, gc_detail_id, token, written, exit, hardFail, tokens, tried, listed, listVars, phase, i,
                   cntVars, imgVars, subs, releases, rel_i, deleted, added, errors, ver_id, ver_resp>>

AddAchievementsFetched ==
    /\ script = "add" /\ pc = "fetch_ret" /\ ret = "a_ach"
    /\ achievements' = all_data
    /\ FetchCall("gameCenterLeaderboards", TRUE, "a_lb")
    /\ UNCHANGED <<ctlVars, gc_detail_id, token, written, exit, hardFail, tokens, log, tried, listed, resp, leaderboards,
                   phase, i, cntVars, imgVars, addVars>>

\* a step 3 that is followed at once by step 6
AddLeaderboardsFetchedThenAdd ==
    /\ script = "add" /\ pc = "fetch_ret" /\ ret = "a_lb"
    /\ leaderboards' = all_data
    /\ ClearFetch
    /\ phase' = "ach" /\ i' = 1 /\ deleted' = 0 /\ pc' = "a_ver_get"
    /\ subs' = <<>> /\ sub_i' = 0
    /\ UNCHANGED <<ctlVars, gc_detail_id, token, written, exit, hardFail, tokens, log, tried, listed, resp,
                   achievements, cntVars, imgVars, review_sub_id, releases, rel_i, added,
                   errors, ver_id, ver_resp>>

\* step 3 ends, step 4 begins
AddLeaderboardsFetched ==
    /\ script = "add" /\ pc = "fetch_ret" /\ ret = "a_lb"
    /\ leaderboards' = all_data
    /\ ClearFetch
    /\ phase' = "ach" /\ i' = 1 /\ deleted' = 0 /\ pc' = "a_rel_get"
    /\ subs' = <<>> /\ sub_i' = 0
    /\ UNCHANGED <<ctlVars, gc_detail_id, token, written, exit, hardFail, tokens, log, tried, listed, resp, achievements,
                   cntVars, imgVars, review_sub_id, releases, rel_i, added, errors, ver_id, ver_resp>>

\* a release's "live" attribute
Lives == {"true", "false", "absent"}

\* no release counts as live
IsLiveNever(rel) == FALSE

\* rel["attributes"].get("live", False)
IsLive(rel) == rel.live = "true"

RECURSIVE SeqsUpTo(_, _)
SeqsUpTo(S, n) ==
    IF n = 0 THEN {<<>>}
    ELSE SeqsUpTo(S, n - 1) \cup {Append(q, x) : q \in SeqsUpTo(S, n - 1), x \in S}

ReleaseLists == {[j \in 1..Len(q) |-> [id |-> j, live |-> q[j]]] : q \in SeqsUpTo(Lives, MaxItems)}

\* steps 4 and 5, loop head: the releases of one item
AddGetReleases ==
    /\ script = "add" /\ pc = "a_rel_get" /\ i <= Len(Items)
    /\ \E st \in Statuses : \E rels \in (IF st = 200 THEN ReleaseLists ELSE {<<>>}) :
         /\ SendFirst(Req("GET", ItemsPath \o "/releases", Items[i], FALSE), st, rels # <<>>)
         /\ tried' = tried \cup {<<"delete", phase, i>>}
         /\ IF ApiGetOk(st) /\ rels # <<>>
              THEN releases' = rels /\ rel_i' = 1 /\ pc' = "a_rel_del" /\ i' = i
              ELSE releases' = <<>> /\ rel_i' = 0 /\ pc' = "a_rel_get" /\ i' = i + 1
    /\ UNCHANGED <<ctlVars, gc_detail_id, token, written, exit, hardFail, tokens, listed, fetchVars, listVars, phase,
                   cntVars, imgVars, subs, sub_i, review_sub_id, deleted, added, errors, ver_id, ver_resp>>

\* "for rel in releases_resp.get('data', [])": one release
AddDeleteRelease ==
    /\ script = "add" /\ pc = "a_rel_del"
    /\ IF ~IsLive(releases[rel_i])
         THEN /\ \E st \in Statuses : Send(Req("DELETE", ReleaseType, releases[rel_i].id, FALSE), st)
              /\ deleted' = deleted + 1
         ELSE UNCHANGED <<log, resp, deleted>>
    /\ IF rel_i < Len(releases)
         THEN rel_i' = rel_i + 1 /\ pc' = "a_rel_del" /\ UNCHANGED <<i, releases>>
         ELSE rel_i' = 0 /\ releases' = <<>> /\ pc' = "a_rel_get" /\ i' = i + 1
    /\ UNCHANGED <<ctlVars, gc_detail_id, token, written, exit, hardFail, tokens, tried, listed, fetchVars, listVars,
                   phase, cntVars, imgVars, subs, sub_i, review_sub_id, added, errors, ver_id, ver_resp>>

\* step 4 is followed by step 5, step 5 by step 6
AddDeleteLoopDone ==
    /\ script = "add" /\ pc = "a_rel_get" /\ i > Len(Items)
    /\ IF phase = "ach"
         THEN phase' = "lb" /\ pc' = "a_rel_get"
         ELSE phase' = "ach" /\ pc' = "a_ver_get"
    /\ i' = 1 /\ deleted' = 0 /\ added' = 0 /\ errors' = 0
    /\ log' = <<>> /\ resp' = None
    /\ UNCHANGED <<ctlVars, gc_detail_id, token, written, exit, hardFail, tokens, tried, listed, fetchVars, listVars,
                   cntVars, imgVars, subs, sub_i, review_sub_id, releases, rel_i, ver_id, ver_resp>>

\* the versions an item may already have, in the order the server lists them
VersionLists == {q \in SeqsUpTo(1..MaxItems, MaxItems) :
                    \A a, b \in 1..Len(q) : a # b => q[a] # q[b]}

\* the id the server gives a version it creates
NewVersion == MaxItems + 1

\* a version created for every item
NeedsVersionAlways(st, vers) == TRUE

\* "if not ver_resp or not ver_resp.get('data')"
NeedsVersion(st, vers) == ~ApiGetOk(st) \/ vers = <<>>

\* steps 6 and 7, loop head: the versions of one item
AddGetVersions ==
    /\ script = "add" /\ pc = "a_ver_get" /\ i <= Len(Items)
    /\ \E st \in Statuses : \E vers \in (IF st = 200 THEN VersionLists ELSE {<<>>}) :
         /\ SendFirst(Req("GET", ItemsPath \o "/versions", Items[i], FALSE), st, vers # <<>>)
         /\ tried' = tried \cup {<<"add", phase, i>>}
         /\ ver_resp' = vers
         /\ IF NeedsVersion(st, vers)
              THEN ver_id' = None /\ pc' = "a_ver_post"
              ELSE ver_id' = vers[1] /\ pc' = "a_item_post"
    /\ UNCHANGED <<ctlVars, gc_detail_id, token, written, exit, hardFail, tokens, listed, fetchVars, listVars, phase, i,
                   cntVars, imgVars, subs, sub_i, review_sub_id, releases, rel_i, deleted,
                   added, errors>>

AddCreateVersion ==
    /\ script = "add" /\ pc = "a_ver_post"
    /\ \E st \in Statuses :
         /\ Send(Req("POST", VersionType, Items[i], FALSE), st)
         /\ IF ApiPostOk(st)
              THEN ver_id' = NewVersion /\ pc' = "a_item_post" /\ UNCHANGED <<errors, i>>
              ELSE ver_id' = ver_id /\ errors' = errors + 1 /\ i' = i + 1 /\ pc' = "a_ver_get"
    /\ UNCHANGED ver_resp
    /\ UNCHANGED <<ctlVars, gc_detail_id, token, written, exit, hardFail, tokens, tried, listed, fetchVars, listVars,
                   phase, cntVars, imgVars, subs, sub_i, review_sub_id, releases, rel_i,
                   deleted, added>>

\* the body of a response that is no success
ErrorBodies == {"errors", "no_errors_key", "empty_errors", "not_json"}

\* r.json().get("errors", [{}])[0].get("detail", ...) raises on a body that is no
\* JSON (r.json()) and on an empty "errors" list ([0])
ErrorDetailRaises(body) == body \in {"empty_errors", "not_json"}

AddCreateItem ==
    /\ script = "add" /\ pc = "a_item_post"
    /\ \E st \in Statuses : \E body \in (IF ApiPostOk(st) THEN {"data"} ELSE ErrorBodies) :
         /\ Send(ItemReq("reviewSubmissionItems", Items[i], review_sub_id, ver_id), st)
         /\ IF ApiPostOk(st)
              THEN /\ added' = added + 1 /\ errors' = errors
                   /\ i' = i + 1 /\ pc' = "a_ver_get" /\ exit' = exit
              ELSE /\ added' = added /\ errors' = errors + 1
                   /\ IF ErrorDetailRaises(body)
                        THEN Crash /\ i' = i
                        ELSE i' = i + 1 /\ pc' = "a_ver_get" /\ exit' = exit
    /\ ver_resp' = <<>>
    /\ UNCHANGED <<ctlVars, gc_detail_id, token, written, hardFail, tokens, tried, listed, fetchVars, listVars, phase,
                   cntVars, imgVars, subs, sub_i, review_sub_id, releases, rel_i, deleted,
                   ver_id>>

\* step 6 is followed by step 7, step 7 by the summary
AddLoopDone ==
    /\ script = "add" /\ pc = "a_ver_get" /\ i > Len(Items)
    /\ pc' = "a_printed"
    /\ log' = <<>> /\ resp' = None /\ ver_id' = None /\ ver_resp' = ver_resp
    /\ UNCHANGED <<ctlVars, gc_detail_id, token, written, exit, hardFail, tokens, tried, listed, fetchVars, listVars,
                   phase, i, cntVars, imgVars, subs, sub_i, review_sub_id, releases, rel_i,
                   deleted, added, errors>>

AddNextStep ==
    /\ script = "add" /\ pc = "a_printed"
    /\ IF phase = "ach"
         THEN phase' = "lb" /\ pc' = "a_ver_get" /\ i' = 1 /\ exit' = exit
         ELSE Exit(0) /\ UNCHANGED <<phase, i>>
    /\ added' = 0 /\ errors' = 0
    /\ UNCHANGED <<ctlVars, gc_detail_id, token, written, hardFail, tokens, log, tried, listed, resp, fetchVars, listVars,
                   cntVars, imgVars, subs, sub_i, review_sub_id, releases, rel_i, deleted,
                   ver_id, ver_resp>>

\* ------------------------------------------------------------ submit_gc_for_review
SubmitGetDetail ==
    /\ script = "submit" /\ pc = "b_detail"
    /\ \E st \in Statuses : \E data \in (IF st = 200 THEN BOOLEAN ELSE {FALSE}) :
         /\ SendData(Req("GET", "gameCenterDetail", 0, FALSE), st, data)
         /\ IF ApiGetOk(st) /\ data
              THEN /\ FetchCall("gameCenterAchievements", TRUE, "b_ach")
                   /\ UNCHANGED <<exit, hardFail>>
              ELSE Exit(1) /\ hardFail' = "detail" /\ UNCHANGED fetchVars
    /\ UNCHANGED <<ctlVars, gc_detail_id, token, written, tokens, tried, listed, listVars, phase, i, cntVars, imgVars,
                   addVars>>

SubmitAchievementsFetched ==
    /\ script = "submit" /\ pc = "fetch_ret" /\ ret = "b_ach"
    /\ achievements' = all_data
    /\ FetchCall("gameCenterLeaderboards", TRUE, "b_lb")
    /\ UNCHANGED <<ctlVars, gc_detail_id, token, written, exit, hardFail, tokens, log, tried, listed, resp, leaderboards,
                   phase, i, cntVars, imgVars, addVars>>

SubmitLeaderboardsFetched ==
    /\ script = "submit" /\ pc = "fetch_ret" /\ ret = "b_lb"
    /\ leaderboards' = all_data
    /\ ClearFetch
    /\ pc' = "b_version"
    /\ UNCHANGED <<ctlVars, gc_detail_id, token, written, exit, hardFail, tokens, log, tried, listed, resp, achievements,
                   phase, i, cntVars, imgVars, addVars>>

\* a step 3 that goes on to step 4 without the version
SubmitGetVersionUnchecked ==
    /\ script = "submit" /\ pc = "b_version"
    /\ \E st \in Statuses : \E data \in (IF st = 200 THEN BOOLEAN ELSE {FALSE}) :
         /\ SendData(Req("GET", "appStoreVersions", 0, TRUE), st, data)
         /\ pc' = "b_appver" /\ UNCHANGED <<exit, hardFail>>
    /\ UNCHANGED <<ctlVars, gc_detail_id, token, written, tokens, tried, listed, fetchVars, listVars, phase, i,
                   cntVars, imgVars, addVars>>

\* step 3: the app store version
SubmitGetVersion ==
    /\ script = "submit" /\ pc = "b_version"
    /\ \E st \in Statuses : \E data \in (IF st = 200 THEN BOOLEAN ELSE {FALSE}) :
         /\ SendData(Req("GET", "appStoreVersions", 0, TRUE), st, data)
         /\ IF ApiGetOk(st) /\ data
              THEN pc' = "b_appver" /\ UNCHANGED <<exit, hardFail>>
              ELSE Exit(1) /\ hardFail' = "version"
    /\ UNCHANGED <<ctlVars, gc_detail_id, token, written, tokens, tried, listed, fetchVars, listVars, phase, i,
                   cntVars, imgVars, addVars>>

\* step 4: the Game Center app version
SubmitCreateAppVersion ==
    /\ script = "submit" /\ pc = "b_appver"
    /\ \E st \in Statuses :
         /\ Send(Req("POST", "gameCenterAppVersions", 0, FALSE), st)
         /\ pc' = IF ApiPostOk(st) THEN "b_release" ELSE "b_existing"
    /\ UNCHANGED <<ctlVars, gc_detail_id, token, written, exit, hardFail, tokens, tried, listed, fetchVars, listVars, phase,
                   i, cntVars, imgVars, addVars>>

SubmitGetExisting ==
    /\ script = "submit" /\ pc = "b_existing"
    /\ \E st \in Statuses : Send(Req("GET", "gameCenterAppVersion", 0, FALSE), st)
    /\ pc' = "b_release"
    /\ UNCHANGED <<ctlVars, gc_detail_id, token, written, exit, hardFail, tokens, tried, listed, fetchVars, listVars, phase,
                   i, cntVars, imgVars, addVars>>

\* a step 5 that goes on to the releases per item whatever the answer
SubmitCreateReleaseThenItems ==
    /\ script = "submit" /\ pc = "b_release"
    /\ \E st \in Statuses :
         /\ Send(Req("POST", "gameCenterDetailReleaseRequests", 0, FALSE), st)
         /\ pc' = "b_item" /\ phase' = "ach" /\ i' = 1 /\ exit' = exit
    /\ UNCHANGED <<ctlVars, gc_detail_id, token, written, hardFail, tokens, tried, listed, fetchVars, listVars,
                   cntVars, imgVars, addVars>>

\* step 5: the release request, tried first
SubmitCreateRelease ==
    /\ script = "submit" /\ pc = "b_release"
    /\ \E st \in Statuses :
         /\ Send(Req("POST", "gameCenterDetailReleaseRequests", 0, FALSE), st)
         /\ IF ApiPostOk(st)
              THEN Exit(0) /\ UNCHANGED <<phase, i>>
              ELSE pc' = "b_item" /\ phase' = "ach" /\ i' = 1 /\ exit' = exit
    /\ UNCHANGED <<ctlVars, gc_detail_id, token, written, hardFail, tokens, tried, listed, fetchVars, listVars,
                   cntVars, imgVars, addVars>>

\* the alternative: one release per item
SubmitCreateItemRelease ==
    /\ script = "submit" /\ pc = "b_item" /\ i <= Len(Items)
    /\ \E st \in Statuses :
         /\ SendFirst(Req("POST", ReleaseType, Items[i], FALSE), st, FALSE)
    /\ tried' = tried \cup {<<"release", phase, i>>}
    /\ i' = i + 1
    /\ UNCHANGED <<ctlVars, gc_detail_id, token, written, pc, exit, hardFail, tokens, listed, fetchVars, listVars, phase,
                   cntVars, imgVars, addVars>>

SubmitLoopDone ==
    /\ script = "submit" /\ pc = "b_item" /\ i > Len(Items)
    /\ IF phase = "ach"
         THEN phase' = "lb" /\ i' = 1 /\ UNCHANGED <<pc, exit>>
         ELSE Exit(0) /\ UNCHANGED <<phase, i>>
    /\ log' = <<>> /\ resp' = None
    /\ UNCHANGED <<ctlVars, gc_detail_id, token, written, hardFail, tokens, tried, listed, fetchVars, listVars,
                   cntVars, imgVars, addVars>>

Next ==
    \/ GenerateImages
    \/ DryRun
    \/ GenerateToken
    \/ FetchPage
    \/ FetchRevisit
    \/ SetupGetDetail
    \/ SetupCreateDetail
    \/ SetupCreateItem
    \/ SetupCreateLocalization
    \/ SetupLoopDone
    \/ UploadMain
    \/ UploadGetDetail
    \/ UploadItemsFetched
    \/ UploadItem
    \/ UploadLocs
    \/ DeleteExistingGet
    \/ DeleteExistingDelete
    \/ CreateImage
    \/ UploadChunk
    \/ CommitImage
    \/ UploadCount
    \/ UploadLoopDone
    \/ UploadSummary
    \/ AddGetDetail
    \/ AddGetSubmissions
    \/ AddGetSubmissionItems
    \/ AddAchievementsFetched
    \/ AddLeaderboardsFetched
    \/ AddGetReleases
    \/ AddDeleteRelease
    \/ AddDeleteLoopDone
    \/ AddGetVersions
    \/ AddCreateVersion
    \/ AddCreateItem
    \/ AddLoopDone
    \/ AddNextStep
    \/ SubmitGetDetail
    \/ SubmitAchievementsFetched
    \/ SubmitLeaderboardsFetched
    \/ SubmitGetVersion
    \/ SubmitCreateAppVersion
    \/ SubmitGetExisting
    \/ SubmitCreateRelease
    \/ SubmitCreateItemRelease
    \/ SubmitLoopDone

Spec == Init /\ [][Next]_vars

\* a script is a sequential process that is never suspended for good: the step
\* it can take is taken
FairSpec == Spec /\ WF_vars(Next)

\* the start of an API tool at any instant of the clock
TokenNext ==
    \/ DryRun
    \/ GenerateToken

TokenSpec == TokenInit /\ [][TokenNext]_vars

\* ============================================================ properties

\* ------------------------------------------------------------ paginated fetch
RECURSIVE ConcatPages(_)
\* the items of the pages, in the order the pages were served
ConcatPages(pages) ==
    IF pages = <<>> THEN <<>>
    ELSE ConcatPages(SubSeq(pages, 1, Len(pages) - 1)) \o pages[Len(pages)].data

\* the fetch has left its loop and is about to return all_data
FetchReturning == pc = "fetch_ret"

AllPagesOk == \A j \in 1..Len(served) : served[j].st = 200

\* the first request goes to the path, every later one to the link of the page before
FollowsLinks ==
    /\ served # <<>>
    /\ served[1].url = 1
    /\ \A j \in 2..Len(served) : served[j].url = served[j - 1].next

\* C1: when the server answers 200 on each of the N pages of a listing, every page
\* but the last carrying a next link and the last none, the paginated fetch
\* returns the concatenation of the pages' items in page order: its length is the
\* sum of the page sizes and no item is dropped, duplicated or reordered.
C1_FetchConcatenatesPages ==
    (FetchReturning /\ AllPagesOk) =>
        /\ FollowsLinks
        /\ served[Len(served)].next = None
        /\ \A j \in 1..(Len(served) - 1) : served[j].next # None
        /\ all_data = ConcatPages(served)
        /\ Len(all_data) = Served
        /\ all_data = [j \in 1..Served |-> j]

\* two pages of one item each were fetched
C1_Witness ==
    /\ FetchReturning /\ AllPagesOk
    /\ Len(served) = 2
    /\ Len(served[1].data) = 1 /\ Len(served[2].data) = 1
    /\ all_data = <<1, 2>>

\* the fetch leaves its loop at the first page request that is not answered 200,
\* holding the items of the pages before it
StopsAtFailure ==
    FetchReturning =>
        \A j \in 1..Len(served) :
            served[j].st # 200 =>
                /\ j = Len(served)
                /\ all_data = ConcatPages(SubSeq(served, 1, j - 1))
                /\ exit = Running

\* the fetch returns: the caller goes on with the list it was handed
CallerProceeds ==
    FetchReturning =>
        /\ pc' \notin {"crashed", "fetch_ret"}
        /\ exit' = exit
        /\ served' = <<>>
        /\ CASE ret = "u_locs" -> locs' = all_data
             [] ret \in {"a_ach", "b_ach"} -> achievements' = all_data
             [] ret \in {"a_lb", "b_lb"} -> leaderboards' = all_data
             [] ret = "u_items" /\ phase = "ach" -> achievements' = all_data
             [] ret = "u_items" /\ phase = "lb" -> leaderboards' = all_data
             [] OTHER -> FALSE

\* C2: when the j-th page request of a paginated fetch is answered with a
\* non-success status, the fetcher requests no further page, raises no error and
\* returns exactly the items of pages 1..j-1 (the empty list when j = 1); the
\* caller proceeds with that partial list.
C2_FetchStopsEarly == []StopsAtFailure /\ [][CallerProceeds]_vars

\* the second page request failed after a first page of one item
C2_Witness ==
    /\ FetchReturning
    /\ Len(served) = 2
    /\ served[1].st = 200 /\ served[2].st = 500
    /\ all_data = <<1>>

\* ------------------------------------------------------------ image upload
\* the offset an upload operation declares, 0 when it declares none
Declared(op) == IF op.offset = NoOffset THEN 0 ELSE op.offset

\* the bytes of the file at the 0-based positions [off, off + len)
FileRange(off, len) ==
    LET n == Min(len, Len(file_data) - off) IN
    [k \in 1..(IF n > 0 THEN n ELSE 0) |-> file_data[off + k]]

ChunksAreRanges ==
    \A j \in 1..Len(sent) :
        LET op == upload_ops[sent[j].op] IN
        sent[j].data = FileRange(Declared(op), op.length)

\* every operation was carried out and answered with a 2xx
AllOpsSucceeded ==
    /\ upload_ops # <<>>
    /\ Len(sent) = Len(upload_ops)
    /\ \A j \in 1..Len(sent) : sent[j].ok

\* the operations' ranges tile the file: every byte lies in exactly one of them
\* and none reaches past the end
RangesTile ==
    /\ \A j \in 1..Len(upload_ops) :
         /\ upload_ops[j].length > 0
         /\ Declared(upload_ops[j]) + upload_ops[j].length <= Len(file_data)
    /\ \A b \in 0..(Len(file_data) - 1) :
         Cardinality({j \in 1..Len(upload_ops) :
                        /\ Declared(upload_ops[j]) <= b
                        /\ b < Declared(upload_ops[j]) + upload_ops[j].length}) = 1

RECURSIVE ByOffset(_)
\* the chunks sent, concatenated in the order of their operations' offsets
ByOffset(S) ==
    IF S = {} THEN <<>>
    ELSE LET j == CHOOSE j \in S :
                    \A k \in S : Declared(upload_ops[sent[j].op])
                                   <= Declared(upload_ops[sent[k].op])
         IN sent[j].data \o ByOffset(S \ {j})

\* C3: upload_image_data sends, for each upload operation, exactly the bytes of
\* the file at [offset, offset + length) (offset 0 when the operation declares
\* none); when every operation succeeds and the declared ranges tile the file,
\* the chunks sent, concatenated in offset order, are the file.
C3_ChunksReassembleFile ==
    /\ ChunksAreRanges
    /\ (AllOpsSucceeded /\ RangesTile) => ByOffset(1..Len(sent)) = file_data

\* a file of two bytes went up in two chunks, the last byte first
C3_Witness ==
    /\ AllOpsSucceeded /\ RangesTile
    /\ Len(sent) = 2
    /\ upload_ops[1].offset = 1
    /\ file_data = <<1, 2>>
    /\ sent[1].data = <<2>> /\ sent[2].data = <<1>>

IsReserve(e) == e.m = "POST" /\ e.r = ImageType
IsChunk(e) == e.r = "uploadUrl"
IsCommit(e) == e.m = "PATCH" /\ e.r = ImageType

\* a reservation answered with a 2xx precedes request j of the image
ReservedBefore(j) == \E k \in 1..(j - 1) : IsReserve(log[k]) /\ log[k].ok

\* C4: for one image, create_and_upload_image sends no chunk before the
\* reservation POST succeeded, sends the commit PATCH only after the reservation
\* succeeded with a non-empty list of upload operations and every one of them
\* was uploaded with a success status, and returns True only if the commit
\* succeeded.
C4_ReserveUploadCommit ==
    script = "upload" =>
        /\ \A j \in 1..Len(log) : IsChunk(log[j]) => ReservedBefore(j)
        /\ \A j \in 1..Len(log) :
             IsCommit(log[j]) =>
                 /\ ReservedBefore(j)
                 /\ AllOpsSucceeded
                 /\ Cardinality({k \in 1..(j - 1) : IsChunk(log[k]) /\ log[k].ok})
                      = Len(upload_ops)
                 /\ \A k \in 1..Len(log) : IsChunk(log[k]) => k < j
        /\ success = "True" =>
             /\ log # <<>>
             /\ IsCommit(log[Len(log)])
             /\ log[Len(log)].ok

\* an image of two chunks was reserved, uploaded and committed
C4_Witness ==
    /\ success = "True"
    /\ Len(sent) = 2
    /\ IsCommit(log[Len(log)])

\* ------------------------------------------------------------ the upload loop
\* the tally of an image that failed: one more failure, then the next item,
\* nothing else touched
FailureIsCounted ==
    (pc = "u_count" /\ success = "False") =>
        /\ failed' = failed + 1 /\ uploaded' = uploaded /\ skipped' = skipped
        /\ i' = i + 1 /\ pc' = "u_item" /\ exit' = Running
        /\ UNCHANGED <<listVars, phase, tried>>

\* an item without localization: one more skip, then the next item
NoLocalizationIsSkipped ==
    (script = "upload" /\ pc = "fetch_ret" /\ ret = "u_locs" /\ all_data = <<>>) =>
        /\ skipped' = skipped + 1 /\ uploaded' = uploaded /\ failed' = failed
        /\ i' = i + 1 /\ pc' = "u_item" /\ exit' = Running
        /\ UNCHANGED <<listVars, phase, tried>>

\* the iterations of the current phase's loop that have begun
Begun == {j \in 1..Len(UploadItems) : <<"upload", phase, j>> \in tried}

\* inside the loop the items before the current one have each been begun and
\* counted once, whatever became of them
LoopCoversItems ==
    /\ (script = "upload" /\ pc \in {"u_item", "u_summary"}) =>
         /\ Begun = 1..(i - 1)
         /\ uploaded + skipped + failed = i - 1
    /\ (script = "upload" /\ pc = "u_summary") => i = Len(UploadItems) + 1
    /\ (script = "upload" /\ pc \in {"u_del_get", "u_del_delete", "u_reserve", "u_chunk",
                                     "u_commit", "u_count"}) =>
         /\ Begun = 1..i
         /\ uploaded + skipped + failed = i - 1

\* C5: a failure at any stage of one image's upload (no localization, reservation
\* rejected, no upload operations, a chunk failing, commit failing) is counted as
\* failed or skipped for that one item, and every later item of the listing is
\* still processed exactly as after a success.
C5_FailureIsolated ==
    /\ []LoopCoversItems
    /\ [][FailureIsCounted /\ NoLocalizationIsSkipped]_vars

\* the first image failed, the second was committed
C5_Witness ==
    /\ pc = "u_count" /\ i = 2
    /\ failed = 1 /\ uploaded = 0 /\ skipped = 0
    /\ success = "True"

\* ------------------------------------------------------------ delete_existing_image
\* C6: delete_existing_image issues no DELETE and returns True when the
\* localization has no related image, and returns False only when an existing
\* image was found and its DELETE was not accepted (a status other than 200, 204).
C6_DeleteExistingImage ==
    pc = "u_reserve" =>
        /\ log # <<>> /\ log[1].m = "GET" /\ log[1].r = ImageRel
        /\ del_ret \in {"True", "False"}
        /\ ~log[1].data => (Len(log) = 1 /\ del_ret = "True")
        /\ del_ret = "False" =>
             /\ log[1].ok /\ log[1].data
             /\ Len(log) = 2 /\ log[2].m = "DELETE" /\ log[2].r = ImageType
             /\ resp \notin {200, 204}

\* the lookup was answered without an image
C6_Witness ==
    /\ pc = "u_reserve"
    /\ Len(log) = 1 /\ log[1].ok /\ ~log[1].data
    /\ del_ret = "True"

\* ------------------------------------------------------------ dry run
\* C7: under --dry-run the setup and upload tools generate no token and issue no
\* network call, whatever the other flags are: they print their item list and
\* return.
C7_DryRunIsOffline ==
    flags.dry =>
        /\ tokens = 0
        /\ log = <<>> /\ served = <<>> /\ sent = <<>> /\ resp = None
        /\ pc \in {"start", "done"}
        /\ pc = "done" => exit = 0
        /\ (pc = "done" /\ script = "setup") => listed # {}

\* a dry run with an -only flag has returned
C7_Witness ==
    /\ flags.dry /\ flags.achOnly
    /\ pc = "done" /\ exit = 0
    /\ tokens = 0 /\ log = <<>>

\* the items main creates under the flags: "if not args.achievements_only",
\* "if not args.leaderboards_only"
Planned ==
    (IF ~flags.achOnly THEN Range(SCORE_LEADERBOARDS) ELSE {})
    \cup (IF ~flags.lbOnly THEN Range(ACHIEVEMENTS) ELSE {})

\* the items a run has sent a create request for
Created ==
    {SCORE_LEADERBOARDS[j] : j \in {k \in 1..Len(SCORE_LEADERBOARDS) : <<"create", "lb", k>> \in tried}}
    \cup {ACHIEVEMENTS[j] : j \in {k \in 1..Len(ACHIEVEMENTS) : <<"create", "ach", k>> \in tried}}

\* C8: for every combination of the -only flags, setup_game_center --dry-run
\* lists exactly the items the same command line without --dry-run sends a
\* create request for.
C8_DryRunListsPlannedItems ==
    /\ (script = "setup" /\ ~flags.dry /\ pc = "done" /\ exit = 0) => Created = Planned
    /\ (script = "setup" /\ flags.dry /\ pc = "done") => listed = Planned

\* ------------------------------------------------------------ batch loops
\* the items of the batch loop of script and phase
BatchItems(p) ==
    IF script = "setup" THEN (IF p = "lb" THEN SCORE_LEADERBOARDS ELSE ACHIEVEMENTS)
    ELSE IF p = "lb" THEN leaderboards ELSE achievements

\* a create request of a batch loop is sent and answered with a non-2xx status
CreateRejected ==
    /\ pc \in {"s_loop", "a_ver_post", "a_item_post", "b_item"}
    /\ pc \in {"s_loop", "b_item"} => i <= Len(BatchItems(phase))
    /\ ~Is2xx(resp')

\* C9: in every per-item batch loop (setup's create loops, steps 6 and 7 of
\* add_gc_to_review, the fallback loops of submit_gc_for_review) a create request
\* answered with a non-2xx status, whatever its body, does not abort the batch:
\* the process keeps running and the loop goes on to its next item.
C9_BatchNotAborted ==
    [][CreateRejected =>
         /\ exit' = Running
         /\ i' = i + 1
         /\ pc' \in {"s_loop", "a_ver_get", "b_item"}]_vars

\* ------------------------------------------------------------ exit status
\* C10: a process exits with a non-zero status if and only if an unrecoverable
\* setup failure occurred (key unreadable, Game Center detail missing, no review
\* submission, app store version not found); every other run exits with zero.
C10_ExitStatus ==
    exit # Running => (exit # 0 <=> hardFail # "none")

\* ------------------------------------------------------------ hard preconditions
\* the lookups whose failure is a hard precondition
HardLookups == {"detail", "submission", "version"}

\* C11: a failed hard precondition terminates the whole run: once the lookup of
\* the Game Center detail, of the review submission or of the app store version
\* has found nothing, the process has ended, so that no further request is sent
\* (in upload_gc_images a missing detail in the achievement phase keeps the
\* leaderboard phase from running).
C11_HardPreconditionEndsRun ==
    hardFail \in HardLookups => (exit # Running /\ pc = "done")

\* ------------------------------------------------------------ wrappers
\* a request has just been sent: it is the last of the log, resp' its status
JustSent == log' # log /\ log' # <<>>

Mutating == {"POST", "PATCH", "DELETE"}

\* the value each mutating wrapper returns, status by status
ClassifiedByList ==
    JustSent =>
        LET e == log'[Len(log')]
            st == resp'
        IN  (e.auth /\ e.m \in Mutating) =>
              CASE e.m = "POST" ->
                     e.res = IF st \in {200, 201} THEN "payload"
                             ELSE IF script = "add" THEN "response" ELSE "None"
                [] e.m = "PATCH" ->
                     e.res = IF st = 200 THEN "payload" ELSE "None"
                [] e.m = "DELETE" ->
                     e.res = IF script = "add" THEN "response"
                             ELSE IF st \in {200, 204} THEN "True" ELSE "False"

\* C12 (as amended): every mutating wrapper classifies a response by its own list
\* of statuses: api_post returns the payload exactly on 200 and 201, api_patch
\* exactly on 200, upload_gc_images' api_delete returns True exactly on 200 and
\* 204; on every other status, other 2xx included, they return None (False for
\* api_delete), except in add_gc_to_review, where api_post returns the response
\* object and api_delete returns the response whatever its status.
C12_WrappersClassifyByList == [][ClassifiedByList]_vars

\* a commit answered with a 2xx other than 200 came back as a failure
C12_Witness ==
    \E j \in 1..Len(log) : log[j].m = "PATCH" /\ log[j].ok /\ log[j].res = "None"

\* C12 (as claimed): every mutating wrapper returns its success value exactly
\* when the status is a 2xx, and its failure value (None, False) otherwise.
C12_WrappersClassifyBy2xx ==
    \A j \in 1..Len(log) :
        (log[j].auth /\ log[j].m \in Mutating) =>
            /\ log[j].ok => log[j].res \in {"payload", "True"}
            /\ ~log[j].ok => log[j].res \in {"None", "False"}

\* ------------------------------------------------------------ token
\* C13: generate_token produces a credential whose expiry is fixed relative to
\* its generation time: exp - iat is exactly 1200 seconds whatever the instant
\* of generation, and iat is that instant (in the whole seconds of a JWT date).
C13_TokenLifetime ==
    token # NoToken =>
        /\ token.exp - token.iat = 1200
        /\ token.iat = now.sec
        /\ tokens = 1

\* a token was generated in the last microsecond of a second
C13_Witness ==
    /\ token # NoToken
    /\ now.us = 999999 /\ now.sec > 0
    /\ token.exp = now.sec + 1200

\* ------------------------------------------------------------ image names
WrittenIn(dir) == {f \in written : f[1] = dir}

\* C17: the PNG files generate_gc_images writes are exactly the files
\* upload_gc_images looks for, <dir>/<vendorIdentifier>.png over the ACHIEVEMENTS
\* (61 files) and SCORE_LEADERBOARDS (60 files) that setup_game_center creates:
\* every item has its image and no image is left without an item.
C17_ImageNamesMatch ==
    (script = "generate" /\ pc = "done" /\ written # {}) =>
        /\ WrittenIn("achievements")
             = {ImagePath("achievements", v) : v \in Range(ACHIEVEMENTS)}
        /\ WrittenIn("leaderboards")
             = {ImagePath("leaderboards", v) : v \in Range(SCORE_LEADERBOARDS)}
        /\ written = WrittenIn("achievements") \cup WrittenIn("leaderboards")
        /\ Cardinality(WrittenIn("achievements")) = 61
        /\ Cardinality(WrittenIn("leaderboards")) = 60

\* the generator has run and saved its images
C17_Witness ==
    /\ script = "generate" /\ pc = "done" /\ exit = 0
    /\ ImagePath("achievements", ACHIEVEMENTS[NUM_LEVELS + 1]) \in written
    /\ ImagePath("leaderboards", SCORE_LEADERBOARDS[NUM_LEVELS]) \in written

\* ------------------------------------------------------------ no retries
\* what identifies a request: method, resource, item and related ids
Ident(e) == <<e.m, e.r, e.id, e.sub, e.ver>>

\* within one step for one item no request is sent twice, least of all one that
\* failed; a page request that failed is the last of its fetch
NothingSentTwice ==
    /\ \A j, k \in 1..Len(log) : j < k => Ident(log[j]) # Ident(log[k])
    /\ \A j, k \in 1..Len(served) : j < k => served[j].st = 200

\* a loop is at its head with an item left
AtLoopHead ==
    \/ script = "setup" /\ pc = "s_loop" /\ i <= Len(SetupItems)
    \/ script = "upload" /\ pc = "u_item" /\ i <= Len(UploadItems)
    \/ script = "add" /\ pc \in {"a_rel_get", "a_ver_get"} /\ i <= Len(Items)
    \/ script = "submit" /\ pc = "b_item" /\ i <= Len(Items)

\* the item a loop takes up is one it has not taken up before
EachItemOnce == AtLoopHead => Cardinality(tried') = Cardinality(tried) + 1

\* C14: no retries: within one run no request that was answered with a failure is
\* sent again; each (method, resource, item) request is issued at most once per
\* item and step, so that a failed create, chunk upload, commit or delete is
\* reported and never attempted again.
C14_NoRetries == []NothingSentTwice /\ [][EachItemOnce]_vars

\* a chunk failed, the image was counted and the loop went on to the next item
C14_Witness ==
    /\ script = "upload" /\ pc = "u_item" /\ i = 2
    /\ failed = 1
    /\ sent # <<>> /\ ~sent[Len(sent)].ok
    /\ Cardinality({j \in 1..Len(log) : log[j].r = "uploadUrl"}) = 1

\* ------------------------------------------------------------ deletes before adds
\* step 6 has begun: the versions of some item have been asked for
StepSixBegun == \E t \in tried : t[1] = "add"

\* steps 4 and 5 have gone through every achievement and every leaderboard
DeleteLoopsDone ==
    /\ \A j \in 1..Len(achievements) : <<"delete", "ach", j>> \in tried
    /\ \A j \in 1..Len(leaderboards) : <<"delete", "lb", j>> \in tried

AddsAfterDeletes ==
    (script = "add" /\ StepSixBegun) =>
        /\ DeleteLoopsDone
        /\ pc \notin {"a_rel_get", "a_rel_del"}

\* a release is deleted only while step 6 has not begun; a version or a review
\* submission item is posted only once the delete loops are through
DeleteThenPost ==
    (script = "add" /\ JustSent) =>
        LET e == log'[Len(log')] IN
        /\ e.m = "DELETE" => (e.r = ReleaseType /\ ~StepSixBegun /\ ~StepSixBegun')
        /\ e.m = "POST" => (DeleteLoopsDone /\ StepSixBegun)

\* C15: add_gc_to_review deletes the old-style releases first: in every run every
\* DELETE of a gameCenterAchievementRelease or gameCenterLeaderboardRelease is
\* sent before the first POST of a reviewSubmissionItem and before any version is
\* created, for achievements and leaderboards alike.
C15_DeletesBeforeAdds == []AddsAfterDeletes /\ [][DeleteThenPost]_vars

\* two leaderboard releases have been deleted and nothing has been added yet
C15_Witness ==
    /\ script = "add" /\ phase = "lb" /\ pc = "a_rel_del"
    /\ deleted = 2
    /\ log # <<>> /\ log[Len(log)].m = "DELETE"
    /\ ~StepSixBegun

\* ------------------------------------------------------------ scenario flags
LbOnlyAlone == flags.lbOnly /\ ~flags.achOnly
AchOnlyAlone == flags.achOnly /\ ~flags.lbOnly
NeitherFlag == ~flags.achOnly /\ ~flags.lbOnly

AchievementResources ==
    {"gameCenterAchievements", "gameCenterAchievementLocalizations",
     "gameCenterAchievementImages", "gameCenterAchievementImage"}
LeaderboardResources ==
    {"gameCenterLeaderboards", "gameCenterLeaderboardLocalizations",
     "gameCenterLeaderboardImages", "gameCenterLeaderboardImage"}

\* the kind a script turns to, by its flags: setup takes leaderboards first,
\* upload takes achievements first
FlagsSelectPhase ==
    (script \in {"setup", "upload"} /\ phase' # phase) =>
        LET first == IF script = "setup" THEN "lb" ELSE "ach"
            second == IF script = "setup" THEN "ach" ELSE "lb" IN
        /\ LbOnlyAlone => (phase = "" /\ phase' = "lb")
        /\ AchOnlyAlone => (phase = "" /\ phase' = "ach")
        /\ NeitherFlag => \/ phase = "" /\ phase' = first
                          \/ phase = first /\ phase' = second

\* a request for a resource of one kind is sent while that kind is being processed
RequestsFollowPhase ==
    (script \in {"setup", "upload"} /\ JustSent) =>
        LET e == log'[Len(log')] IN
        /\ e.r \in AchievementResources => phase' = "ach"
        /\ e.r \in LeaderboardResources => phase' = "lb"

\* what has been asked for is of the selected kind
FlagsSelectRequests ==
    script \in {"setup", "upload"} =>
        /\ LbOnlyAlone =>
              /\ phase # "ach"
              /\ \A t \in tried : t[2] = "lb"
              /\ \A j \in 1..Len(log) : log[j].r \notin AchievementResources
        /\ AchOnlyAlone =>
              /\ phase # "lb"
              /\ \A t \in tried : t[2] = "ach"
              /\ \A j \in 1..Len(log) : log[j].r \notin LeaderboardResources

\* with neither flag a run that gets past its token (and, in setup, its detail)
\* ends in the second kind, having gone through the first
BothKindsProcessed ==
    (NeitherFlag /\ ~flags.dry /\ pc = "done") =>
        /\ (script = "setup" /\ hardFail = "none") =>
              /\ phase = "ach"
              /\ \A j \in 1..Len(SCORE_LEADERBOARDS) : <<"create", "lb", j>> \in tried
              /\ \A j \in 1..Len(ACHIEVEMENTS) : <<"create", "ach", j>> \in tried
        /\ (script = "upload" /\ hardFail # "key") => phase = "lb"

\* C16: the scenario flags select the work: with --leaderboards-only alone setup
\* sends create requests for leaderboards only and upload handles leaderboard
\* images only; with --achievements-only alone the converse; with neither flag
\* both kinds are processed, leaderboards first in setup and achievements first
\* in upload.
C16_FlagsSelectWork ==
    /\ [](FlagsSelectRequests /\ BothKindsProcessed)
    /\ [][FlagsSelectPhase /\ RequestsFollowPhase]_vars

\* upload with --leaderboards-only alone has uploaded a leaderboard image
C16_Witness ==
    /\ script = "upload" /\ LbOnlyAlone /\ ~flags.dry
    /\ phase = "lb" /\ uploaded = 1 /\ pc = "u_item"

\* ------------------------------------------------------------ parameters of the fetch
\* the calls that pass {"limit": 200}: all but the localizations of an item
CallerParams == ret # "u_locs"

InFetch == pc \in {"fetch", "fetch_ret"} /\ served # <<>>

ParamsOnlyFirst ==
    InFetch =>
        /\ served[1].url = 1
        /\ served[1].par = CallerParams
        /\ \A j \in 2..Len(served) :
              /\ ~served[j].par
              /\ served[j].url = served[j - 1].next
        /\ ~params

\* one pass of the loop sends one GET, to the URL the loop holds
OneGetPerPage ==
    (pc = "fetch" /\ served' # served) =>
        /\ Len(served') = Len(served) + 1
        /\ served'[Len(served')].url = url
        /\ served'[Len(served')].par = params
        /\ SubSeq(served', 1, Len(served)) = served

\* C18: the paginated fetch sends the caller's query parameters with the first
\* request only: every later request goes to the links.next URL of the page
\* before it, without parameters, and each page visited costs exactly one GET.
C18_ParamsOnFirstRequestOnly == []ParamsOnlyFirst /\ [][OneGetPerPage]_vars

\* a fetch called with parameters has asked for a second page
C18_Witness ==
    /\ pc = "fetch_ret" /\ Len(served) = 2 /\ CallerParams
    /\ served[1].par /\ ~served[2].par
    /\ served[2].url = served[1].next

\* ------------------------------------------------------------ termination of the fetch
\* C19: the paginated fetch terminates for every server behaviour: the loop that
\* follows the next links eventually returns, also when a next link points back
\* to a page already visited.
C19_FetchTerminates == (pc = "fetch") ~> (pc = "fetch_ret")

\* ------------------------------------------------------------ the review submission
IsLookup(e) == e.r = "reviewSubmissions/items"
Lookups == SelectSeq(log, IsLookup)

\* the items lookup came back with a non-empty list
HasItems(e) == e.ok /\ e.data

\* the log still holds step 2
SelectionLogged == \E j \in 1..Len(log) : log[j].r = "reviewSubmissions"

ChosenSubmission ==
    (script = "add" /\ review_sub_id # None /\ SelectionLogged) =>
        LET L == Lookups IN
        /\ L # <<>>
        /\ \A j \in 1..Len(L) : L[j].id = j
        /\ subs # <<>> => (Len(L) <= Len(subs) /\ \A j \in 1..Len(L) : L[j].id = subs[j])
        /\ \A j \in 1..(Len(L) - 1) : ~HasItems(L[j])
        /\ IF HasItems(L[Len(L)])
             THEN review_sub_id = L[Len(L)].id
             ELSE /\ review_sub_id = L[1].id
                  /\ subs # <<>> => Len(L) = Len(subs)

\* no submission is chosen before the lookups are through
NotChosenEarly ==
    (script = "add" /\ pc \in {"a_detail", "a_subs", "a_sub_items"}) => review_sub_id = None

ItemsReferenceChosen ==
    \A j \in 1..Len(log) :
        log[j].r = "reviewSubmissionItems" =>
            (review_sub_id # None /\ log[j].sub = review_sub_id)

\* step 2 ends the run only on a missing or empty list of submissions, and then
\* with status 1; the chosen submission is never replaced
SelectionStep ==
    /\ (script = "add" /\ pc \in {"a_subs", "a_sub_items"} /\ exit' # Running) =>
          /\ pc = "a_subs" /\ exit' = 1
          /\ ~HasItems(log'[Len(log')]) /\ log'[Len(log')].r = "reviewSubmissions"
    /\ (script = "add" /\ pc = "a_subs" /\ exit' = Running) =>
          (HasItems(log'[Len(log')]) /\ subs' # <<>>)
    /\ review_sub_id # None => review_sub_id' = review_sub_id

\* C20: add_gc_to_review takes, of the submissions returned and in their order,
\* the first whose items lookup succeeds with a non-empty list; when there is
\* none (no items, or every lookup failed) it takes the first submission; it
\* exits non-zero in this step only on a missing or empty list of submissions;
\* every later reviewSubmissionItems POST names that one submission.
C20_SubmissionChoice ==
    /\ [](ChosenSubmission /\ NotChosenEarly /\ ItemsReferenceChosen)
    /\ [][SelectionStep]_vars

\* neither of two submissions has items: the first one is taken
C20_Witness ==
    /\ script = "add" /\ pc = "fetch" /\ ret = "a_ach"
    /\ Len(Lookups) = 2 /\ ~HasItems(Lookups[1]) /\ ~HasItems(Lookups[2])
    /\ Lookups[1].ok /\ ~Lookups[2].ok
    /\ review_sub_id = subs[1] /\ Len(subs) = 2

\* ------------------------------------------------------------ versions of an item
IsVersionsLookup(e) ==
    e.m = "GET" /\ e.r \in {"gameCenterAchievements/versions", "gameCenterLeaderboards/versions"}
IsVersionPost(e) ==
    e.m = "POST" /\ e.r \in {"gameCenterAchievementVersions", "gameCenterLeaderboardVersions"}
IsItemPost(e) == e.m = "POST" /\ e.r = "reviewSubmissionItems"

\* the log of one pass of step 6 or 7: it starts at the versions lookup
VersionPass == script = "add" /\ log # <<>> /\ IsVersionsLookup(log[1])

\* the lookup succeeded and listed a version
VersionFound == log[1].res = "payload" /\ log[1].data

VersionBeforeItem ==
    VersionPass =>
        /\ Len(log) <= 3
        /\ \A j \in 1..Len(log) : log[j].id = log[1].id
        /\ \A j \in 2..Len(log) : IsVersionPost(log[j]) \/ IsItemPost(log[j])
        /\ \A j \in 1..Len(log) : IsVersionPost(log[j]) => (j = 2 /\ ~VersionFound)
        /\ (Len(log) >= 2 /\ ~VersionFound) => IsVersionPost(log[2])
        /\ \A j \in 1..Len(log) :
              IsItemPost(log[j]) =>
                  /\ j = Len(log)
                  /\ log[j].ver = ver_id /\ ver_id # None
                  /\ \/ j = 2 /\ VersionFound /\ ver_id # NewVersion
                     \/ /\ j = 3 /\ log[2].res = "payload"
                        /\ ver_id = NewVersion
        /\ pc = "a_item_post" => (VersionFound <=> ver_resp # <<>>)

\* the item is posted with the first version listed, or with the one just created
ItemNamesVersion ==
    (script = "add" /\ pc = "a_item_post" /\ JustSent) =>
        LET e == log'[Len(log')] IN
        /\ IsItemPost(e)
        /\ e.id = Items[i]
        /\ e.ver = IF ver_resp # <<>> THEN ver_resp[1] ELSE NewVersion

\* C21: add_gc_to_review, for each achievement and each leaderboard: a version is
\* created only when the versions lookup fails or lists none, otherwise the
\* first version listed is reused and none is created; after a failed creation
\* no reviewSubmissionItem is posted for the item; at most one
\* reviewSubmissionItem is posted per item and it names the version obtained for
\* that item.
C21_VersionBeforeItem == []VersionBeforeItem /\ [][ItemNamesVersion]_vars

\* an item was posted with the first listed version, which is not the lowest id
C21_Witness ==
    /\ VersionPass /\ VersionFound /\ Len(log) = 2 /\ IsItemPost(log[2])
    /\ log[2].ver = 2 /\ phase = "lb"

\* ------------------------------------------------------------ the release request first
IsItemRelease(e) ==
    e.m = "POST" /\ e.r \in {"gameCenterAchievementReleases", "gameCenterLeaderboardReleases"}

ReleasesOf(p, n) == {<<"release", p, j>> : j \in 1..n}

\* the release request decides: the alternative is entered exactly when the
\* wrapper handed back None for it, and otherwise the run is over
RequestDecides ==
    (script = "submit" /\ pc = "b_release" /\ pc' # pc) =>
        LET e == log'[Len(log')] IN
        /\ e.m = "POST" /\ e.r = "gameCenterDetailReleaseRequests"
        /\ tried = {}
        /\ pc' = "b_item" <=> e.res = "None"
        /\ pc' # "b_item" => (pc' = "done" /\ exit' = 0 /\ tried' = {})

\* a release of an item is posted in the alternative only, for the item next in
\* its list, achievements first
ReleasesInOrder ==
    (script = "submit" /\ JustSent /\ IsItemRelease(log'[Len(log')])) =>
        LET e == log'[Len(log')] IN
        /\ pc = "b_item"
        /\ e.r = ReleaseType /\ e.id = Items[i]
        /\ <<"release", phase, i>> \notin tried
        /\ tried' = tried \cup {<<"release", phase, i>>}
        /\ ReleasesOf(phase, i - 1) \subseteq tried
        /\ phase = "ach" => tried \subseteq ReleasesOf("ach", Len(achievements))
        /\ phase = "lb" => ReleasesOf("ach", Len(achievements)) \subseteq tried

AlternativeCoversLists ==
    script = "submit" =>
        /\ tried \subseteq ReleasesOf("ach", Len(achievements))
                              \cup ReleasesOf("lb", Len(leaderboards))
        /\ (pc = "done" /\ phase = "lb") =>
              tried = ReleasesOf("ach", Len(achievements))
                          \cup ReleasesOf("lb", Len(leaderboards))
        /\ pc = "b_item" => hardFail = "none"

\* C22: submit_gc_for_review tries the single release request first: releases
\* per item are posted if and only if the gameCenterDetailReleaseRequests POST
\* failed (api_post handed back None), and then exactly one per fetched achievement followed by exactly one
\* per fetched leaderboard, in the order of the lists.
C22_ReleaseRequestFirst ==
    []AlternativeCoversLists /\ [][RequestDecides /\ ReleasesInOrder]_vars

\* the alternative went through two achievements and a leaderboard
C22_Witness ==
    /\ script = "submit" /\ pc = "done" /\ exit = 0 /\ phase = "lb"
    /\ Len(achievements) = 2 /\ Len(leaderboards) = 1
    /\ tried = ReleasesOf("ach", 2) \cup ReleasesOf("lb", 1)

\* ------------------------------------------------------------ get_or_create_gc_detail
IsDetailLookup(e) == e.m = "GET" /\ e.r = "gameCenterDetail"
IsDetailCreate(e) == e.m = "POST" /\ e.r = "gameCenterDetails"

\* the lookup handed back a detail
LookupFound(e) == e.res = "payload" /\ e.data

\* no create request for a leaderboard or an achievement has gone out
NothingCreatedYet == tried = {} /\ \A j \in 1..Len(log) : log[j].r \notin
    (AchievementResources \cup LeaderboardResources)

GetOrCreate ==
    (script = "setup" /\ JustSent) =>
        LET e == log'[Len(log')] IN
        /\ IsDetailLookup(e) =>
              /\ pc = "s_detail" /\ log = <<>> /\ gc_detail_id = None
              /\ IF LookupFound(e)
                   THEN /\ gc_detail_id' = ExistingDetail
                        /\ pc' # "s_create_detail" /\ exit' # 1
                   ELSE /\ gc_detail_id' = None /\ pc' = "s_create_detail"
        /\ IsDetailCreate(e) =>
              /\ pc = "s_create_detail" /\ Len(log) = 1
              /\ IsDetailLookup(log[1]) /\ ~LookupFound(log[1])
              /\ gc_detail_id = None /\ NothingCreatedYet
              /\ IF e.res = "payload"
                   THEN gc_detail_id' = NewDetail /\ exit' # 1
                   ELSE /\ gc_detail_id' = None
                        /\ exit' = 1 /\ pc' = "done" /\ hardFail' = "detail"
        /\ (~IsDetailLookup(e) /\ ~IsDetailCreate(e)) =>
              (gc_detail_id # None /\ gc_detail_id' = gc_detail_id)

DetailBeforeCreates ==
    script = "setup" =>
        /\ hardFail = "detail" => (exit = 1 /\ NothingCreatedYet /\ gc_detail_id = None)
        /\ tried # {} => gc_detail_id # None
        /\ (gc_detail_id = ExistingDetail /\ NothingCreatedYet) =>
              \A j \in 1..Len(log) : ~IsDetailCreate(log[j])

\* C23: get_or_create_gc_detail of setup_game_center posts a gameCenterDetails
\* create only when the lookup of the app's detail fails or hands back no data;
\* when a detail is found its id is returned and nothing is created; when lookup
\* and creation both fail the run exits non-zero before any leaderboard or
\* achievement create request goes out.
C23_GetOrCreateDetail == []DetailBeforeCreates /\ [][GetOrCreate]_vars

\* lookup and creation both failed: the run is over with status 1
C23_Witness ==
    /\ script = "setup" /\ pc = "done" /\ exit = 1 /\ hardFail = "detail"
    /\ Len(log) = 2 /\ IsDetailLookup(log[1]) /\ ~log[1].ok
    /\ IsDetailCreate(log[2]) /\ ~log[2].ok /\ log[2].res = "None"

\* ------------------------------------------------------------ live releases
IsReleaseDelete(e) ==
    e.m = "DELETE" /\ e.r \in {"gameCenterAchievementReleases", "gameCenterLeaderboardReleases"}

\* the 'live' attribute is false or absent
NotLive(rel) == rel.live \in {"false", "absent"}

\* the releases of the current item that the inner loop has gone past
Passed == SubSeq(releases, 1, rel_i - 1)

DeletesMatchNotLive ==
    (script = "add" /\ pc = "a_rel_del") =>
        LET D == SelectSeq(log, IsReleaseDelete)
            N == SelectSeq(Passed, NotLive) IN
        /\ Len(log) = 1 + Len(D)
        /\ Len(D) = Len(N)
        /\ \A j \in 1..Len(D) : D[j].id = N[j].id /\ D[j].r = ReleaseType

\* one pass of the inner loop: a DELETE for a release that is not live, nothing
\* for a live one; no DELETE goes out anywhere else
DeleteOnlyNotLive ==
    /\ (script = "add" /\ pc = "a_rel_del") =>
          LET rel == releases[rel_i] IN
          IF NotLive(rel)
            THEN /\ Len(log') = Len(log) + 1 /\ SubSeq(log', 1, Len(log)) = log
                 /\ IsReleaseDelete(log'[Len(log')])
                 /\ log'[Len(log')].r = ReleaseType
                 /\ log'[Len(log')].id = rel.id
                 /\ deleted' = deleted + 1
            ELSE log' = log /\ deleted' = deleted
    /\ (script = "add" /\ JustSent /\ log'[Len(log')].m = "DELETE") => pc = "a_rel_del"

\* C24: add_gc_to_review never deletes a live release: a DELETE of a
\* gameCenterAchievementRelease or gameCenterLeaderboardRelease goes out only for
\* a release whose 'live' attribute is false or absent, and exactly one for each
\* such release the releases lookup returned.
C24_LiveReleasesKept == []DeletesMatchNotLive /\ [][DeleteOnlyNotLive]_vars

\* of two releases the first, live, was kept and the second was deleted
C24_Witness ==
    /\ script = "add" /\ pc = "a_rel_get" /\ phase = "ach" /\ i = 2
    /\ Len(log) = 2 /\ log[1].data
    /\ IsReleaseDelete(log[2]) /\ log[2].id = 2

\* ------------------------------------------------------------ outcome counters
UploadSum == uploaded + skipped + failed
AddSum == added + errors

\* the per-item loop of upload_*_images is running, or just exhausted
InUploadLoop == script = "upload" /\ i >= 1
\* steps 6 and 7 of add_gc_to_review
InAddLoop == script = "add" /\ pc \in {"a_ver_get", "a_ver_post", "a_item_post", "a_printed"}

\* the sum of the counters is the number of items gone through: i - 1 while the
\* loop is at item i; a pass that ends in an exception has counted its item
CountersPartition ==
    /\ InUploadLoop =>
          /\ UploadSum = i - 1
          /\ i <= Len(UploadItems) + 1
          /\ pc = "u_summary" => UploadSum = Len(UploadItems)
    /\ InAddLoop =>
          /\ AddSum = i - 1
          /\ i <= Len(Items) + 1
          /\ pc = "a_printed" => AddSum = Len(Items)
    /\ (script = "add" /\ pc = "crashed") => AddSum = i

\* a pass of the loop ends with exactly one counter raised by one, and no counter
\* moves while a pass is under way
OneCounterPerItem ==
    /\ (InUploadLoop /\ i' = i + 1) =>
          \/ uploaded' = uploaded + 1 /\ skipped' = skipped /\ failed' = failed
          \/ uploaded' = uploaded /\ skipped' = skipped + 1 /\ failed' = failed
          \/ uploaded' = uploaded /\ skipped' = skipped /\ failed' = failed + 1
    /\ (InUploadLoop /\ i' = i) => <<uploaded, skipped, failed>>' = <<uploaded, skipped, failed>>
    /\ (InAddLoop /\ pc # "a_printed" /\ i' = i + 1) =>
          \/ added' = added + 1 /\ errors' = errors
          \/ added' = added /\ errors' = errors + 1
    /\ (InAddLoop /\ pc # "a_printed" /\ i' = i /\ pc' # "crashed") => <<added, errors>>' = <<added, errors>>

\* C25: the outcome counters partition the batch: when a per-item loop completes
\* every item has raised exactly one counter, so uploaded + skipped + failed of
\* upload_gc_images is the number of fetched items of the kind and added + errors
\* of add_gc_to_review is the number of fetched achievements (leaderboards);
\* before that the sum is the number of items gone through so far.
C25_CountersPartition == []CountersPartition /\ [][OneCounterPerItem]_vars

\* two items went through the upload loop with different outcomes
C25_Witness ==
    /\ script = "upload" /\ pc = "u_summary" /\ Len(UploadItems) = 2
    /\ skipped = 1 /\ failed = 1 /\ uploaded = 0

\* ------------------------------------------------------------ the old image
IsImageLookup(e) ==
    e.m = "GET" /\ e.r \in {"gameCenterAchievementImage", "gameCenterLeaderboardImage"}
IsImageDelete(e) ==
    e.m = "DELETE" /\ e.r \in {"gameCenterAchievementImages", "gameCenterLeaderboardImages"}
IsImagePost(e) ==
    e.m = "POST" /\ e.r \in {"gameCenterAchievementImages", "gameCenterLeaderboardImages"}
IsImagePatch(e) ==
    e.m = "PATCH" /\ e.r \in {"gameCenterAchievementImages", "gameCenterLeaderboardImages"}

InImageFlow ==
    script = "upload" /\ pc \in {"u_del_delete", "u_reserve", "u_chunk", "u_commit", "u_count"}

\* the old image was found and its DELETE accepted
OldImageDeleted == Len(log) >= 2 /\ IsImageDelete(log[2]) /\ log[2].res = "True"

RemovalFirst ==
    InImageFlow =>
        /\ log # <<>> /\ IsImageLookup(log[1])
        /\ \A j \in 1..Len(log) :
              /\ IsImageLookup(log[j]) => j = 1
              /\ IsImageDelete(log[j]) => (j = 2 /\ LookupFound(log[1]))
              /\ IsImagePost(log[j]) =>
                    \/ j = 2 /\ ~LookupFound(log[1])
                    \/ j = 3 /\ IsImageDelete(log[2])
        /\ pc \in {"u_chunk", "u_commit"} => \E j \in 2..3 : j <= Len(log) /\ IsImagePost(log[j])
        /\ pc = "u_reserve" => del_ret \in {"True", "False"}

\* an image that failed after its old image was deleted: nothing was committed
\* and nothing but the one reservation was created
NotRestored ==
    (InImageFlow /\ pc = "u_count" /\ success = "False" /\ OldImageDeleted) =>
        /\ \A j \in 1..Len(log) : IsImagePatch(log[j]) => log[j].res = "None"
        /\ \A j \in 1..Len(log) : IsImagePost(log[j]) => j = 3
        /\ \A j \in 4..Len(log) : IsChunk(log[j]) \/ IsImagePatch(log[j])

\* whatever the removal gave, the reservation is posted next; a failed image is
\* tallied without a further request
ReservedRegardless ==
    /\ (script = "upload" /\ pc = "u_del_delete") => (pc' = "u_reserve" /\ exit' = Running)
    /\ (script = "upload" /\ pc = "u_del_get") =>
          (pc' \in {"u_del_delete", "u_reserve"} /\ exit' = Running)
    /\ (script = "upload" /\ pc = "u_reserve") =>
          /\ Len(log') = Len(log) + 1 /\ IsImagePost(log'[Len(log')])
          /\ log'[Len(log')].id = log[1].id
          /\ del_ret' = del_ret
    /\ (script = "upload" /\ pc = "u_count") => (log' = log /\ pc' = "u_item")

\* C26: create_and_upload_image removes the old image before it reserves the new
\* one and ignores what the removal gave: the lookup and the DELETE precede the
\* reservation POST, the reservation is posted whether the delete succeeded,
\* failed or found nothing, and when a later stage fails after a successful
\* delete nothing restores the old image: the localization is left without a
\* committed image.
C26_OldImageRemovedFirst ==
    [](RemovalFirst /\ NotRestored) /\ [][ReservedRegardless]_vars

\* the old image was deleted, the reservation accepted, an upload operation failed
C26_Witness ==
    /\ script = "upload" /\ pc = "u_count" /\ success = "False"
    /\ OldImageDeleted
    /\ Len(log) = 4 /\ IsImagePost(log[3]) /\ log[3].res = "payload"
    /\ IsChunk(log[4]) /\ ~log[4].ok

\* ------------------------------------------------------------ upload_image_data
\* the statuses upload_image_data takes for a success
UploadStatuses == {200, 201, 204}

OpsInOrder ==
    script = "upload" =>
        /\ Len(sent) <= Len(upload_ops)
        /\ \A j \in 1..Len(sent) : sent[j].op = j
        /\ \A j \in 1..(Len(sent) - 1) : sent[j].ok
        /\ pc = "u_chunk" => (Len(sent) = opi - 1 /\ \A j \in 1..Len(sent) : sent[j].ok)
        /\ pc = "u_commit" =>
              (Len(sent) = Len(upload_ops) /\ \A j \in 1..Len(sent) : sent[j].ok)
        /\ (pc = "u_count" /\ sent # <<>> /\ ~sent[Len(sent)].ok) =>
              /\ success = "False"
              /\ IsChunk(log[Len(log)])
              /\ \A j \in 1..Len(log) : ~IsImagePatch(log[j])
        /\ (pc = "u_count" /\ success = "True") =>
              (Len(sent) = Len(upload_ops) /\ \A j \in 1..Len(sent) : sent[j].ok)

\* one pass of "for op in upload_operations": the operation is sent as listed;
\* a status outside the list ends the upload with False
StopsAtFailedOp ==
    (script = "upload" /\ pc = "u_chunk") =>
        /\ Len(sent') = Len(sent) + 1 /\ sent'[Len(sent')].op = opi
        /\ Len(log') = Len(log) + 1
        /\ log'[Len(log')].r = "uploadUrl" /\ log'[Len(log')].id = opi
        /\ log'[Len(log')].m = upload_ops[opi].method
        /\ IF resp' \notin UploadStatuses
             THEN success' = "False" /\ pc' = "u_count"
             ELSE /\ success' = success
                  /\ IF opi = Len(upload_ops)
                       THEN pc' = "u_commit"
                       ELSE pc' = "u_chunk" /\ opi' = opi + 1

\* C27: upload_image_data stops at the first upload operation that fails: the
\* operations go out in the order the reservation lists them, after a status
\* outside {200, 201, 204} the function returns False and sends none of the
\* later operations, and it returns True only when every listed operation was
\* sent and succeeded.
C27_StopsAtFirstFailedOp == []OpsInOrder /\ [][StopsAtFailedOp]_vars

\* the first of two operations failed: the second was never sent
C27_Witness ==
    /\ script = "upload" /\ pc = "u_count" /\ success = "False"
    /\ Len(upload_ops) = 2 /\ Len(sent) = 1 /\ ~sent[1].ok
    /\ resp = 500

\* ------------------------------------------------------------ no mutation before the preconditions
\* the log holds a lookup of resource r that handed back data
FoundInLog(r) == \E j \in 1..Len(log) : log[j].m = "GET" /\ log[j].r = r /\ LookupFound(log[j])

\* the hard preconditions of the script hold: the detail and the review
\* submission (add), the detail and the app store version (submit)
Established ==
    CASE script = "add" -> review_sub_id # None
      [] script = "submit" -> FoundInLog("gameCenterDetail") /\ FoundInLog("appStoreVersions")
      [] OTHER -> TRUE

\* the per-item loops, which empty the log, have begun
LoopsBegun == phase # ""

\* a POST, PATCH or DELETE goes out only once the preconditions hold; the per-item
\* loops begin only then
MutationNeedsPreconditions ==
    /\ (script \in {"add", "submit"} /\ JustSent) =>
          LET e == log'[Len(log')] IN
          /\ e.m \in Mutating => (Established \/ LoopsBegun)
          /\ ~(Established \/ LoopsBegun) => e.m = "GET"
    /\ (script \in {"add", "submit"} /\ ~LoopsBegun /\ LoopsBegun') => Established

\* a run that ended on a missing precondition sent nothing but GETs
OnlyGetsBeforeFailure ==
    (script \in {"add", "submit"} /\ hardFail \in HardLookups) =>
        /\ exit = 1 /\ pc = "done"
        /\ tried = {} /\ log # <<>>
        /\ \A j \in 1..Len(log) : log[j].m = "GET"
        /\ ~LookupFound(log[Len(log)])
        /\ ~Established /\ ~LoopsBegun

\* while the preconditions do not hold nothing but GETs has gone out
OnlyGetsBefore ==
    (script \in {"add", "submit"} /\ ~LoopsBegun /\ ~Established) =>
        /\ tried = {}
        /\ \A j \in 1..Len(log) : log[j].m = "GET"

\* C28: no mutation before the preconditions hold: in add_gc_to_review and
\* submit_gc_for_review every request that goes out before the Game Center
\* detail and the review submission (the app store version) are found is a GET,
\* so a run that exits non-zero on a missing precondition has sent no POST, PATCH
\* or DELETE.
C28_NoMutationBeforePreconditions ==
    [](OnlyGetsBeforeFailure /\ OnlyGetsBefore) /\ [][MutationNeedsPreconditions]_vars

\* submit_gc_for_review fetched its lists and then found no app store version
C28_Witness ==
    /\ script = "submit" /\ pc = "done" /\ exit = 1 /\ hardFail = "version"
    /\ Len(log) = 2 /\ FoundInLog("gameCenterDetail")
    /\ log[2].r = "appStoreVersions" /\ log[2].ok /\ ~log[2].data
    /\ achievements # <<>>

\* ------------------------------------------------------------ the bearer token
\* upload_gc_images past its token
UploadRunning == script = "upload" /\ ~flags.dry /\ pc \notin {"start", "crashed"}

OneTokenForApi ==
    /\ UploadRunning => (tokens = 1 /\ token # NoToken /\ hardFail # "key")
    /\ (script = "upload" /\ ~UploadRunning) => (tokens = 0 /\ token = NoToken /\ log = <<>>)
    /\ script = "upload" =>
          \A j \in 1..Len(log) :
              /\ log[j].r # "uploadUrl" => log[j].auth
              /\ log[j].r = "uploadUrl" => (~log[j].auth /\ log[j].m = "PUT")

\* the token is generated once and never replaced; what goes to an upload
\* destination goes without it, everything else with it
TokenKept ==
    script = "upload" =>
        /\ token # NoToken => (token' = token /\ tokens' = tokens)
        /\ JustSent =>
              LET e == log'[Len(log')] IN
              /\ token # NoToken /\ tokens = 1
              /\ e.auth <=> pc # "u_chunk"
              /\ pc = "u_chunk" <=> e.r = "uploadUrl"

\* C29: the bearer token of upload_gc_images: one token is generated per run that
\* is no dry run and that token goes with every request to the App Store Connect
\* API; a request to an upload destination of the reservation carries the
\* headers of its upload operation and never the bearer token.
C29_BearerTokenHandling == []OneTokenForApi /\ [][TokenKept]_vars

\* a reservation went out with the token, the upload operation after it without
C29_Witness ==
    /\ UploadRunning /\ tokens = 1 /\ Len(log) >= 2
    /\ IsImagePost(log[Len(log) - 1]) /\ log[Len(log) - 1].auth
    /\ log[Len(log)].r = "uploadUrl" /\ ~log[Len(log)].auth /\ log[Len(log)].ok

====
